---- MODULE Spec2Model ----
(***************************************************************************)
(* A model of ext/oj/fast.c, the Oj::Doc fast JSON document navigator:     *)
(* the in-place scanner that builds the leaf tree, and the cursor          *)
(* (where_path / where) with the navigation methods of Oj::Doc.            *)
(*                                                                         *)
(* Bytes are integers 0..255 and C strings are sequences of bytes read up  *)
(* to the first NUL.  A Leaf pointer is the 1-based allocation number of   *)
(* the leaf, 0 is the null pointer.  A char* into the JSON buffer is a     *)
(* 1-based position in the buffer.                                         *)
(***************************************************************************)
EXTENDS Integers, Sequences, FiniteSets, TLC

\* ------------------------------------------------------------------ bytes

\* The ASCII code of the characters the model's texts and paths use.
Ascii ==
    (" " :> 32) @@ ("\"" :> 34) @@ ("+" :> 43) @@ ("," :> 44) @@ ("-" :> 45) @@
    ("." :> 46) @@ ("/" :> 47) @@ ("0" :> 48) @@ ("1" :> 49) @@ ("2" :> 50) @@
    ("3" :> 51) @@ ("4" :> 52) @@ ("5" :> 53) @@ ("6" :> 54) @@ ("7" :> 55) @@
    ("8" :> 56) @@ ("9" :> 57) @@ (":" :> 58) @@ ("E" :> 69) @@ ("[" :> 91) @@
    ("\\" :> 92) @@ ("]" :> 93) @@ ("a" :> 97) @@ ("b" :> 98) @@ ("e" :> 101) @@
    ("f" :> 102) @@ ("l" :> 108) @@ ("n" :> 110) @@ ("r" :> 114) @@ ("s" :> 115) @@
    ("t" :> 116) @@ ("u" :> 117) @@ ("{" :> 123) @@ ("}" :> 125)

\* The bytes of a text written as a tuple of one-character strings.
Bytes(t) == [i \in 1..Len(t) |-> Ascii[t[i]]]

\* *(p + i - 1) for a C string held as a sequence without its NUL: the byte
\* at position i, the terminating NUL past the end.
Ch(p, i) == IF i \in 1..Len(p) THEN p[i] ELSE 0

\* The suffix of a C string starting at its i-th byte (p + i - 1).
From(p, i) == IF i > Len(p) THEN <<>> ELSE SubSeq(p, i, Len(p))

IsDigit(c) == Ascii["0"] <= c /\ c <= Ascii["9"]

\* ------------------------------------------------------------- leaf types

T_NONE   == "T_NONE"
T_NIL    == "T_NIL"
T_TRUE   == "T_TRUE"
T_FALSE  == "T_FALSE"
T_FIXNUM == "T_FIXNUM"
T_FLOAT  == "T_FLOAT"
T_STRING == "T_STRING"
T_ARRAY  == "T_ARRAY"
T_HASH   == "T_HASH"

STR_VAL  == 0
COL_VAL  == 1
RUBY_VAL == 2

MAX_STACK == 100

BATCH_SIZE == 100

\* struct _Leaf after leaf_init(leaf, type).  key and index share storage
\* and so do str and elements; each is read only under the discriminator
\* that selects it, so the model keeps them as separate fields.
leaf_init(type) ==
    [next        |-> 0,
     key         |-> 0,
     index       |-> 0,
     str         |-> 0,
     elements    |-> 0,
     type        |-> type,
     parent_type |-> T_NONE,
     value_type  |-> IF type \in {T_ARRAY, T_HASH} THEN COL_VAL
                     ELSE IF type \in {T_NIL, T_TRUE, T_FALSE} THEN RUBY_VAL
                     ELSE STR_VAL]

\* leaf_new: the next cell of the arena, initialised.  pi.ret is the new leaf.
leaf_new(pi, type) ==
    [pi EXCEPT !.leaves = Append(pi.leaves, leaf_init(type)),
               !.ret = Len(pi.leaves) + 1]

\* An append that links element into the ring and leaves parent->elements
\* on the child it pointed to.
leaf_append_element_keeping_tail(leaves, parent, element) ==
    IF leaves[parent].elements = 0
    THEN [leaves EXCEPT ![parent].elements = element,
                        ![element].next = element]
    ELSE LET tail == leaves[parent].elements IN
         [[leaves EXCEPT ![element].next = leaves[tail].next]
                  EXCEPT ![tail].next = element]

\* leaf_append_element: link element as the new tail of parent's ring.
leaf_append_element(leaves, parent, element) ==
    IF leaves[parent].elements = 0
    THEN [leaves EXCEPT ![parent].elements = element,
                        ![element].next = element]
    ELSE LET tail == leaves[parent].elements IN
         [[[leaves EXCEPT ![element].next = leaves[tail].next]
                   EXCEPT ![tail].next = element]
                   EXCEPT ![parent].elements = element]

\* ---------------------------------------------------------------- scanner

\* The scanner state (struct _ParseInfo with the parts of the Doc the scan
\* writes): json the bytes of the String given to open, str the buffer
\* doc_open copied them to (with the String's NUL), s the position in it,
\* leaves the arena, size the doc's token counter, err the message of the
\* error raised ("" for none), ret the value returned by the last call.
\* writes is the history of read_quoted_value's stores: for each *t = ...
\* the pair of the tail t and the head h at that moment.
ParseInfo(json) ==
    [json |-> json, str |-> json \o <<0>>, s |-> 1, leaves |-> <<>>, size |-> 0,
     err |-> "", ret |-> 0, writes |-> <<>>]

Cur(pi) == Ch(pi.str, pi.s)

raise_error(pi, msg) == [pi EXCEPT !.err = msg, !.ret = 0]

IsWhite(c) == c \in {32, 9, 12, 10, 13}

RECURSIVE next_non_white(_)
next_non_white(pi) ==
    IF IsWhite(Cur(pi)) THEN next_non_white([pi EXCEPT !.s = @ + 1]) ELSE pi

\* One hex digit pair of read_hex; -1 for a byte that is no hex digit.
HexVal(c) ==
    IF Ascii["0"] <= c /\ c <= Ascii["9"] THEN c - Ascii["0"]
    ELSE IF 65 <= c /\ c <= 70 THEN c - 65 + 10
    ELSE IF Ascii["a"] <= c /\ c <= Ascii["f"] THEN c - Ascii["a"] + 10
    ELSE -1

\* read_hex(pi, h): the byte two hex digits at h and h + 1 spell; on a bad
\* digit the error is raised with pi.s at the digit.
read_hex(pi, h) ==
    IF HexVal(Ch(pi.str, h)) < 0
    THEN raise_error([pi EXCEPT !.s = h], "invalid hex character")
    ELSE IF HexVal(Ch(pi.str, h + 1)) < 0
    THEN raise_error([pi EXCEPT !.s = h + 1], "invalid hex character")
    ELSE [pi EXCEPT !.ret = (((HexVal(Ch(pi.str, h)) * 16) % 256)
                             + HexVal(Ch(pi.str, h + 1))) % 256]

\* The byte an escape letter stands for in read_quoted_value; -1 for none.
Unescaped(c) ==
    CASE c = Ascii["n"]  -> 10
      [] c = Ascii["r"]  -> 13
      [] c = Ascii["t"]  -> 9
      [] c = Ascii["f"]  -> 12
      [] c = Ascii["b"]  -> 8
      [] c = Ascii["\""] -> Ascii["\""]
      [] c = Ascii["/"]  -> Ascii["/"]
      [] c = Ascii["\\"] -> Ascii["\\"]
      [] OTHER -> -1

\* if ('\0' != *t) { t++; } after *t = read_hex(pi, h): the tail steps past
\* the high byte b of a \u escape unless that byte is NUL.
after_high_byte(t, b) == IF b # 0 THEN t + 1 ELSE t

\* *t = b in read_quoted_value, the head being at h.
store(pi, t, h, b) ==
    [pi EXCEPT !.str[t] = b, !.writes = Append(@, <<t, h>>)]

\* The for loop of read_quoted_value with head h and tail t.
RECURSIVE quoted_loop(_, _, _, _)
quoted_loop(pi, value, h, t) ==
    LET c == Ch(pi.str, h) IN
    IF c = Ascii["\""]
    THEN [store(pi, t, h, 0) EXCEPT !.s = h + 1, !.ret = value]
    ELSE IF c = 0
    THEN raise_error([pi EXCEPT !.s = h], "quoted string not terminated")
    ELSE IF c = Ascii["\\"]
    THEN LET d == Ch(pi.str, h + 1) IN
         IF d = Ascii["u"]
         THEN LET r1 == read_hex(pi, h + 2) IN
              IF r1.err # "" THEN r1
              ELSE LET p1 == store(pi, t, h + 2, r1.ret)
                       t1 == after_high_byte(t, r1.ret)
                       r2 == read_hex(p1, h + 4)
                   IN  IF r2.err # "" THEN r2
                       ELSE quoted_loop(store(p1, t1, h + 4, r2.ret),
                                        value, h + 6, t1 + 1)
         ELSE IF Unescaped(d) >= 0
         THEN quoted_loop(store(pi, t, h + 1, Unescaped(d)), value, h + 2, t + 1)
         ELSE raise_error([pi EXCEPT !.s = h + 1], "invalid escaped character")
    ELSE quoted_loop(IF t # h THEN store(pi, t, h, c) ELSE pi,
                     value, h + 1, t + 1)

\* A read_quoted_value whose tail starts one byte ahead of its head.
read_quoted_value_tail_ahead(pi) == quoted_loop(pi, pi.s + 1, pi.s + 1, pi.s + 2)

\* read_quoted_value: unescape the string at pi.s in place; pi.ret is the
\* position of its first byte, pi.s the position after the closing quote.
read_quoted_value(pi) == quoted_loop(pi, pi.s + 1, pi.s + 1, pi.s + 1)

read_str(pi) ==
    LET n == leaf_new(pi, T_STRING)
        q == read_quoted_value(n)
    IN  IF q.err # "" THEN q
        ELSE [q EXCEPT !.leaves[n.ret].str = q.ret, !.ret = n.ret]

RECURSIVE skip_digits(_, _)
skip_digits(str, s) == IF IsDigit(Ch(str, s)) THEN skip_digits(str, s + 1) ELSE s

\* read_num: the token's extent and type.  The first leaf_new is the one
\* the function makes before it knows the type; its cell is never used.
read_num(pi) ==
    LET start == pi.s
        n0    == leaf_new(pi, T_FIXNUM)
        s1    == IF Ch(pi.str, start) = Ascii["-"] THEN start + 1 ELSE start
        s2    == skip_digits(pi.str, s1)
        dot   == Ch(pi.str, s2) = Ascii["."]
        s3    == IF dot THEN skip_digits(pi.str, s2 + 1) ELSE s2
        exp   == Ch(pi.str, s3) \in {Ascii["e"], Ascii["E"]}
        s4    == IF exp
                 THEN skip_digits(pi.str,
                          IF Ch(pi.str, s3 + 1) \in {Ascii["-"], Ascii["+"]}
                          THEN s3 + 2 ELSE s3 + 1)
                 ELSE s3
        n1    == leaf_new(n0, IF dot THEN T_FLOAT ELSE T_FIXNUM)
    IN  [n1 EXCEPT !.leaves[n1.ret].str = start, !.s = s4]

\* read_true, read_false and read_nil: the literal's remaining letters.
read_literal(pi, type, rest, msg) ==
    LET n == leaf_new(pi, type) IN
    IF \E i \in 1..Len(rest) :
          /\ \A j \in 1..(i - 1) : Ch(pi.str, pi.s + j) = rest[j]
          /\ Ch(pi.str, pi.s + i) # rest[i]
    THEN raise_error([n EXCEPT !.s = pi.s + 1], msg)
    ELSE [n EXCEPT !.s = pi.s + 1 + Len(rest)]

read_true(pi)  == read_literal(pi, T_TRUE, Bytes(<<"r", "u", "e">>),
                               "invalid format, expected 'true'")
read_false(pi) == read_literal(pi, T_FALSE, Bytes(<<"a", "l", "s", "e">>),
                               "invalid format, expected 'false'")
read_nil(pi)   == read_literal(pi, T_NIL, Bytes(<<"u", "l", "l">>),
                               "invalid format, expected 'nil'")

RECURSIVE read_next(_), read_obj(_), read_array(_)
RECURSIVE array_loop(_, _, _), array_element(_, _, _), array_delimiter(_, _, _, _)
RECURSIVE obj_loop(_, _), obj_key(_, _), obj_colon(_, _), obj_value(_, _, _)
RECURSIVE obj_element(_, _, _), obj_delimiter(_, _, _)
RECURSIVE read_value(_)

\* The switch of read_next on the first byte that is no white space.
read_value(pi) ==
    LET c == Cur(pi) IN
    IF c = Ascii["{"] THEN read_obj(pi)
    ELSE IF c = Ascii["["] THEN read_array(pi)
    ELSE IF c = Ascii["\""] THEN read_str(pi)
    ELSE IF c \in {Ascii["+"], Ascii["-"]} \/ IsDigit(c) THEN read_num(pi)
    ELSE IF c = Ascii["t"] THEN read_true(pi)
    ELSE IF c = Ascii["f"] THEN read_false(pi)
    ELSE IF c = Ascii["n"] THEN read_nil(pi)
    ELSE [pi EXCEPT !.ret = 0]

\* pi->doc->size++ at the end of read_next, reached when no error was
\* raised.
counted(r) == IF r.err # "" THEN r ELSE [r EXCEPT !.size = @ + 1]

\* read_next: skip white space, dispatch on the first byte, count.
read_next(pi) == counted(read_value(next_non_white(pi)))

\* The while (1) loop of read_array for array a with cnt elements so far:
\* array_loop reads the element, array_element appends it, array_delimiter
\* handles the ',' or ']' after it (end is where the element ended).
array_loop(pi, a, cnt) == array_element(read_next(next_non_white(pi)), a, cnt)

array_element(r, a, cnt) ==
    IF r.err # "" THEN r
    ELSE IF r.ret = 0 THEN raise_error(r, "unexpected character")
    ELSE array_delimiter(
             next_non_white(
                 [r EXCEPT !.leaves = leaf_append_element(
                                          [r.leaves EXCEPT ![r.ret].index = cnt + 1,
                                                           ![r.ret].parent_type = T_ARRAY],
                                          a, r.ret)]),
             r.s, a, cnt)

\* A delimiter step that writes the element's NUL on the byte before end.
array_delimiter_early(w, end, a, cnt) ==
    IF Cur(w) = Ascii[","]
    THEN array_loop([w EXCEPT !.s = @ + 1, !.str[end - 1] = 0], a, cnt + 1)
    ELSE IF Cur(w) = Ascii["]"]
    THEN [w EXCEPT !.s = @ + 1, !.str[end - 1] = 0, !.ret = a]
    ELSE raise_error(w, "invalid format, expected , or ] while in an array")

array_delimiter(w, end, a, cnt) ==
    IF Cur(w) = Ascii[","]
    THEN array_loop([w EXCEPT !.s = @ + 1, !.str[end] = 0], a, cnt + 1)
    ELSE IF Cur(w) = Ascii["]"]
    THEN [w EXCEPT !.s = @ + 1, !.str[end] = 0, !.ret = a]
    ELSE raise_error(w, "invalid format, expected , or ] while in an array")

\* read_array after leaf_new and the '[': w.ret is the new array.
array_open(w) ==
    IF Cur(w) = Ascii["]"]
    THEN [w EXCEPT !.s = @ + 1]
    ELSE array_loop(w, w.ret, 0)

read_array(pi) ==
    array_open(next_non_white([leaf_new(pi, T_ARRAY) EXCEPT !.s = @ + 1]))

\* The while (1) loop of read_obj for object h: obj_key reads the key,
\* obj_colon and obj_value the ':' and the value, obj_element appends it,
\* obj_delimiter handles the ',' or '}' after it.
obj_loop(pi, h) == obj_key(next_non_white(pi), h)

obj_key(w, h) ==
    IF Cur(w) = Ascii["\""] THEN obj_colon(read_quoted_value(w), h)
    ELSE raise_error(w, "unexpected character")

obj_colon(k, h) ==
    IF k.err # "" THEN k ELSE obj_value(next_non_white(k), k.ret, h)

obj_value(w, key, h) ==
    IF Cur(w) # Ascii[":"]
    THEN raise_error(w, "invalid format, expected :")
    ELSE obj_element(read_next([w EXCEPT !.s = @ + 1]), key, h)

obj_element(r, key, h) ==
    IF r.err # "" THEN r
    ELSE IF r.ret = 0 THEN raise_error(r, "unexpected character")
    ELSE obj_delimiter(
             next_non_white(
                 [r EXCEPT !.leaves = leaf_append_element(
                                          [r.leaves EXCEPT ![r.ret].key = key,
                                                           ![r.ret].parent_type = T_HASH],
                                          h, r.ret)]),
             r.s, h)

obj_delimiter(w, end, h) ==
    IF Cur(w) = Ascii["}"]
    THEN [w EXCEPT !.s = @ + 1, !.str[end] = 0, !.ret = h]
    ELSE IF Cur(w) = Ascii[","]
    THEN obj_loop([w EXCEPT !.s = @ + 1, !.str[end] = 0], h)
    ELSE raise_error(w, "invalid format, expected , or } while in an object")

\* read_obj after leaf_new and the '{': w.ret is the new object.
obj_open(w) ==
    IF Cur(w) = Ascii["}"]
    THEN [w EXCEPT !.s = @ + 1]
    ELSE obj_loop(w, w.ret)

read_obj(pi) ==
    obj_open(next_non_white([leaf_new(pi, T_HASH) EXCEPT !.s = @ + 1]))

\* -------------------------------------------------------------- documents

\* The JSON texts the model opens.
Text1 == Bytes(<<"[", "[", "1", "]", ",", "2", "]">>)
Text2 == Bytes(<<"{", "\"", "a", "\"", ":", "[", "1", ",", "2", "]", "}">>)
Text3 == Bytes(<<"[", "3", ",", "[", "2", ",", "1", "]", "]">>)

\* protect_open_proc's parse of each text: the scanner's final state, its
\* ret the root leaf (doc->data).
Parsed ==
    << read_next(ParseInfo(Text1)),
       read_next(ParseInfo(Text2)),
       read_next(ParseInfo(Text3)) >>

\* The text of n arrays nested in one another around the number 1.
NestedText(n) ==
    [i \in 1..(2 * n + 1) |->
        IF i <= n THEN Ascii["["] ELSE IF i = n + 1 THEN Ascii["1"] ELSE Ascii["]"]]

\* The scanner's final state for NestedText(n), written out leaf by leaf:
\* read_array allocates leaves 1..n going down, read_num leaves n+1 (dropped)
\* and n+2, and each array's closing bracket is overwritten by the NUL
\* that ends its element.  The same as read_next(ParseInfo(NestedText(n))).
Nested(n) ==
    [json   |-> NestedText(n),
     str    |-> [i \in 1..(2 * n + 2) |->
                   IF i <= n THEN Ascii["["] ELSE IF i = n + 1 THEN Ascii["1"] ELSE 0],
     s      |-> 2 * n + 2,
     leaves |-> [i \in 1..(n + 2) |->
                   IF i <= n
                   THEN [leaf_init(T_ARRAY) EXCEPT
                            !.elements = IF i < n THEN i + 1 ELSE n + 2,
                            !.next = IF i = 1 THEN 0 ELSE i,
                            !.index = IF i = 1 THEN 0 ELSE 1,
                            !.parent_type = IF i = 1 THEN T_NONE ELSE T_ARRAY]
                   ELSE IF i = n + 1 THEN leaf_init(T_FIXNUM)
                   ELSE [leaf_init(T_FIXNUM) EXCEPT
                            !.str = n + 1, !.next = n + 2, !.index = 1,
                            !.parent_type = T_ARRAY]],
     size   |-> n + 1,
     err    |-> "",
     ret    |-> 1,
     writes |-> <<>>]

\* The text of an array of n ones.
FlatText(n) ==
    [i \in 1..(2 * n + 1) |->
        IF i = 1 THEN Ascii["["]
        ELSE IF i = 2 * n + 1 THEN Ascii["]"]
        ELSE IF i % 2 = 0 THEN Ascii["1"] ELSE Ascii[","]]

\* The scanner's final state for FlatText(n), written out leaf by leaf:
\* leaf 1 is the array, read_num allocates leaves 2k (dropped) and 2k+1 for
\* the k-th number, and the ',' or ']' after each number is overwritten by
\* the NUL that ends it.  The same as read_next(ParseInfo(FlatText(n))).
Flat(n) ==
    [json   |-> FlatText(n),
     str    |-> [i \in 1..(2 * n + 2) |->
                   IF i = 1 THEN Ascii["["]
                   ELSE IF i % 2 = 0 /\ i <= 2 * n THEN Ascii["1"] ELSE 0],
     s      |-> 2 * n + 2,
     leaves |-> [i \in 1..(2 * n + 1) |->
                   IF i = 1
                   THEN [leaf_init(T_ARRAY) EXCEPT !.elements = 2 * n + 1]
                   ELSE IF i % 2 = 0 THEN leaf_init(T_FIXNUM)
                   ELSE [leaf_init(T_FIXNUM) EXCEPT
                            !.str = i - 1,
                            !.next = IF i < 2 * n + 1 THEN i + 2 ELSE 3,
                            !.index = (i - 1) \div 2,
                            !.parent_type = T_ARRAY]],
     size   |-> n + 1,
     err    |-> "",
     ret    |-> 1,
     writes |-> <<>>]

\* The text of an array of n arrays of the number 1.
SiblingsText(n) ==
    [i \in 1..(4 * n + 1) |->
        IF i = 1 THEN Ascii["["]
        ELSE IF i = 4 * n + 1 THEN Ascii["]"]
        ELSE IF i % 4 = 2 THEN Ascii["["]
        ELSE IF i % 4 = 3 THEN Ascii["1"]
        ELSE IF i % 4 = 0 THEN Ascii["]"]
        ELSE Ascii[","]]

\* The scanner's final state for SiblingsText(n), written out leaf by leaf:
\* leaf 1 is the outer array, the k-th inner array is leaf 3k - 1, and
\* read_num allocates leaves 3k (dropped) and 3k + 1 for its number.  The
\* ']' after each number and the ',' or ']' after each inner array are
\* overwritten by the NUL that ends the element.  The same as
\* read_next(ParseInfo(SiblingsText(n))).
Siblings(n) ==
    [json   |-> SiblingsText(n),
     str    |-> [i \in 1..(4 * n + 2) |->
                   IF i = 1 THEN Ascii["["]
                   ELSE IF i % 4 = 2 /\ i < 4 * n THEN Ascii["["]
                   ELSE IF i % 4 = 3 THEN Ascii["1"]
                   ELSE 0],
     s      |-> 4 * n + 2,
     leaves |-> [i \in 1..(3 * n + 1) |->
                   IF i = 1
                   THEN [leaf_init(T_ARRAY) EXCEPT !.elements = 3 * n - 1]
                   ELSE IF i % 3 = 2
                   THEN [leaf_init(T_ARRAY) EXCEPT
                            !.elements = i + 2,
                            !.next = IF i < 3 * n - 1 THEN i + 3 ELSE 2,
                            !.index = (i + 1) \div 3,
                            !.parent_type = T_ARRAY]
                   ELSE IF i % 3 = 0 THEN leaf_init(T_FIXNUM)
                   ELSE [leaf_init(T_FIXNUM) EXCEPT
                            !.str = 4 * ((i - 1) \div 3) - 1,
                            !.next = i, !.index = 1,
                            !.parent_type = T_ARRAY]],
     size   |-> 2 * n + 1,
     err    |-> "",
     ret    |-> 1,
     writes |-> <<>>]

\* An array of so many numbers that its leaves do not fit batch0:
\* 2 * (BATCH_SIZE \div 2) + 1 leaves.
LongText == FlatText(BATCH_SIZE \div 2)

\* The scan protect_open_proc makes of json; the scan of LongText is taken
\* from Flat.
read_document(json) ==
    IF json = LongText THEN Flat(BATCH_SIZE \div 2) ELSE read_next(ParseInfo(json))

VARIABLES
    doc,        \* the Doc the parse filled: json, str, leaves, size, data
    DATA_PTR,    \* DATA_PTR(doc.self): 1 for &doc, 0 once detached
    batches,     \* the Batch structs of doc->batches that leaf_new ALLOCed
    pc,          \* where parse_json stands: "protect", "block" or "closed"
    value_type,  \* value_type of every leaf (leaf_value flips it)
    where_path,  \* doc->where_path, and from index MAX_STACK on the fields behind it
    where,       \* doc->where - doc->where_path
    iter,        \* the each_leaf / each_child / each_value calls in progress
    pre,         \* history: the cursor when the last such call was made
    last,        \* history: the last method call and what it returned
    fault        \* "" while the process runs within defined behaviour

vars == <<doc, DATA_PTR, batches, pc, value_type, where_path, where, iter, pre,
         last, fault>>

\* What a Leaf variable that was never assigned may hold besides null and a
\* pointer to a leaf: Wild is a bit pattern that is no address of readable
\* memory, Stray(k, vt) the address of readable memory that is no leaf,
\* whose bytes read as a struct _Leaf with the type StrayTypes[k] and the
\* value_type vt.  T_NONE stands for every type byte that is no leaf type:
\* each takes the default branch of the switches on leaf->type.  The other
\* fields of such a struct are words the model does not follow.
Wild  == -1

\* What parse_json has left in a word of the Doc that holds no Leaf: the
\* handle in doc->self, the first Batch in doc->batches, the count in
\* batch0.next_avail.  None of them is read as a Leaf before the cursor has
\* stored one there.
Kept  == -29

StrayTypes ==
    <<T_NONE, T_NIL, T_TRUE, T_FALSE, T_FIXNUM, T_FLOAT, T_STRING, T_ARRAY, T_HASH>>

Stray(k, vt) == -2 - ((k - 1) * 3 + vt)

Strays == {Stray(k, vt) : k \in 1..Len(StrayTypes), vt \in {STR_VAL, COL_VAL, RUBY_VAL}}

\* leaf->type and leaf->value_type of the stray pointer n.
StrayType(n)      == StrayTypes[((-2 - n) \div 3) + 1]
StrayValueType(n) == (-2 - n) % 3

Leaves   == 1..Len(doc.leaves)
Leaf(n)  == IF n \in Strays
            THEN [leaf_init(StrayType(n)) EXCEPT !.value_type = StrayValueType(n)]
            ELSE doc.leaves[n]
data     == doc.data

\* The C string at position p of the document's buffer.
CStr(p) ==
    LET n == CHOOSE k \in p..Len(doc.str) :
                 doc.str[k] = 0 /\ \A j \in p..(k - 1) : doc.str[j] # 0
    IN  SubSeq(doc.str, p, n - 1)

\* A cursor: the where_path array, where as an index into it, and the fault
\* the last step ran into ("" for none).
Cursor(wp, w) == [wp |-> wp, w |-> w, fault |-> ""]

\* The words of the Doc the cursor is kept in: where_path has MAX_STACK
\* entries and the struct goes on with encoding, at index MAX_STACK, size,
\* at MAX_STACK + 1, self, at MAX_STACK + 2, batches, at MAX_STACK + 3, and
\* the next and next_avail of batch0, at MAX_STACK + 4 and MAX_STACK + 5.
\* The variable where_path holds them all, each as the Leaf it reads as.
\* Behind them are the leaves of batch0 themselves.
Words == 0..(MAX_STACK + 5)

\* The unsigned long n of doc->size read as a Leaf: null or a number that
\* is the address of nothing.
SizeWord(n) == IF n = 0 THEN 0 ELSE Wild

\* The words of the Doc after doc_init and a scan that returned the leaf
\* root and counted size values.
DocWords(root, size) ==
    [i \in Words |->
        IF i = 0 THEN root
        ELSE IF i = MAX_STACK + 1 THEN SizeWord(size)
        ELSE IF i \in {MAX_STACK + 2, MAX_STACK + 3, MAX_STACK + 5} THEN Kept
        ELSE 0]

\* The address of leaf n as a number: above every count of leaves.
Address(n) == 2^30 + n

\* The array f after f[i] = e, with no test of i against its length: a
\* store past the end lands in the word of memory that is there.
Store(f, i, e) ==
    IF i \in DOMAIN f THEN [f EXCEPT ![i] = e]
    ELSE [j \in DOMAIN f \cup {i} |-> IF j = i THEN e ELSE f[j]]

\* where++ ; *where = e, with no test of the depth.  The store at index
\* MAX_STACK lands in doc->encoding, the next ones in size, self, batches
\* and the head of batch0, and the cursor reads them back from there.  No
\* document of the model that is that deep holds a string, so the encoding
\* field is not read as an encoding while a leaf is stored in it.  A store
\* behind the last of Words overwrites the fields of the root leaf, the
\* first of batch0: from there on the tree is not the one that was parsed.
Push(c, e) ==
    IF c.w + 1 \in Words
    THEN [c EXCEPT !.w = c.w + 1, !.wp[c.w + 1] = e]
    ELSE [c EXCEPT !.fault = "stray"]

\* ---------------------------------------------------------------- paths

\* The number of leading decimal digits of path.
RECURSIVE DigitsLen(_)
DigitsLen(path) ==
    IF IsDigit(Ch(path, 1)) THEN 1 + DigitsLen(From(path, 2)) ELSE 0

\* cnt * 10 + d in an int of 32 bits: the low 32 bits of the product and
\* sum, read as a signed number.  (The overflow of a signed int is
\* undefined; the builds keep the low bits.)  The halves of 16 bits keep
\* every intermediate result within 32 bits.
int_times10_plus(cnt, d) ==
    LET hi  == IF cnt < 0 THEN (cnt \div 65536) + 65536 ELSE cnt \div 65536
        lo  == cnt % 65536
        lo2 == lo * 10 + d
        hi2 == (hi * 10 + (lo2 \div 65536)) % 65536
    IN  (IF hi2 >= 32768 THEN hi2 - 65536 ELSE hi2) * 65536 + (lo2 % 65536)

\* The int the leading decimal digits of path spell, as the loop
\* cnt = cnt * 10 + (*path - '0') of move_step and get_leaf leaves it.
RECURSIVE DigitsVal(_, _)
DigitsVal(path, cnt) ==
    IF IsDigit(Ch(path, 1))
    THEN DigitsVal(From(path, 2), int_times10_plus(cnt, Ch(path, 1) - Ascii["0"]))
    ELSE cnt

\* The number the leading decimal digits of str spell, as the loop
\* n = n * 10 + (*s - '0') of leaf_fixnum_value leaves it in an int64_t or,
\* from NUM_MAX on, as rb_cstr_to_inum reads it: the number itself.
RECURSIVE fixnum_digits(_, _)
fixnum_digits(str, n) ==
    IF IsDigit(Ch(str, 1))
    THEN fixnum_digits(From(str, 2), n * 10 + (Ch(str, 1) - Ascii["0"]))
    ELSE n

\* strchr(path, '/') - path, or -1 when path has no '/'.
SlashAt(path) ==
    IF \E i \in 1..Len(path) : path[i] = Ascii["/"]
    THEN (CHOOSE i \in 1..Len(path) :
              path[i] = Ascii["/"] /\ \A j \in 1..(i - 1) : path[j] # Ascii["/"]) - 1
    ELSE -1

\* 0 == strncmp(key, e->key, klen) && '\0' == e->key[klen]
KeyMatches(key, klen, e) ==
    LET ekey == CStr(Leaf(e).key) IN
    /\ \A i \in 1..klen : Ch(key, i) = Ch(ekey, i)
    /\ Ch(ekey, klen + 1) = 0

\* The do-while over an array's ring: the element the count stops at, 0
\* when the ring wraps first.
RECURSIVE ArrayFind(_, _, _)
ArrayFind(first, e, cnt) ==
    IF 1 >= cnt THEN e
    ELSE IF Leaf(e).next = first THEN 0
    ELSE ArrayFind(first, Leaf(e).next, cnt - 1)

\* The do-while over an object's ring: the first member whose key matches.
RECURSIVE HashFind(_, _, _, _)
HashFind(first, e, key, klen) ==
    IF KeyMatches(key, klen, e) THEN e
    ELSE IF Leaf(e).next = first THEN 0
    ELSE HashFind(first, Leaf(e).next, key, klen)

\* ------------------------------------------------------------- move_step

\* move_step(doc, path, loc) on cursor c: the cursor it leaves and the loc
\* it returns, 0 for success.
RECURSIVE move_step(_, _, _)
move_step(c, path, loc) ==
    LET fail == [c |-> c, loc |-> loc] IN
    IF Ch(path, 1) = 0 THEN [c |-> c, loc |-> 0]
    ELSE LET leaf == c.wp[c.w] IN
    IF leaf = 0 THEN fail
    ELSE IF Ch(path, 1) = Ascii["."] /\ Ch(path, 2) = Ascii["."]
    THEN LET init == leaf
             p2   == From(path, 3)
         IN  IF c.w = 0 THEN fail
             ELSE LET p3 == IF Ch(p2, 1) = Ascii["/"] THEN From(p2, 2) ELSE p2
                      r  == move_step([c EXCEPT !.wp[c.w] = 0, !.w = c.w - 1],
                                      p3, loc + 1)
                  IN  IF r.loc # 0
                      THEN [r EXCEPT !.c.wp[r.c.w] = init, !.c.w = r.c.w + 1]
                      ELSE r
    ELSE IF value_type[leaf] = COL_VAL /\ Leaf(leaf).elements # 0
    THEN LET first == Leaf(Leaf(leaf).elements).next IN
         IF Leaf(leaf).type = T_ARRAY
         THEN LET n   == DigitsLen(path)
                  cnt == DigitsVal(path, 0)
                  p2  == From(path, n + 1)
              IN  IF Ch(p2, 1) # Ascii["/"] /\ Ch(p2, 1) # 0 THEN fail
                  ELSE LET p3 == IF Ch(p2, 1) = Ascii["/"] THEN From(p2, 2) ELSE p2
                           e  == ArrayFind(first, first, cnt)
                       IN  IF e = 0 THEN fail
                           ELSE LET r == move_step(Push(c, e), p3, loc + 1) IN
                                IF r.loc # 0
                                THEN [r EXCEPT !.c.wp[r.c.w] = 0, !.c.w = r.c.w - 1]
                                ELSE r
         ELSE IF Leaf(leaf).type = T_HASH
         THEN LET slash == SlashAt(path)
                  klen  == IF slash < 0 THEN Len(path) ELSE slash
                  p3    == IF slash < 0 THEN From(path, klen + 1)
                           ELSE From(path, klen + 2)
                  e     == HashFind(first, first, path, klen)
              IN  IF e = 0 THEN fail
                  ELSE LET r == move_step(Push(c, e), p3, loc + 1) IN
                       IF r.loc # 0
                       THEN [r EXCEPT !.c.wp[r.c.w] = 0, !.c.w = r.c.w - 1]
                       ELSE r
         ELSE fail
    ELSE fail

\* The entry shared by doc_move, doc_each_leaf and doc_each_child: a leading
\* '/' resets where to where_path, then move_step(doc, path, 1).
MoveFrom(wp, w, path) ==
    IF Ch(path, 1) = Ascii["/"]
    THEN move_step(Cursor(wp, 0), From(path, 2), 1)
    ELSE move_step(Cursor(wp, w), path, 1)

\* ------------------------------------------------- get_leaf, get_doc_leaf

\* The value a method is given when the optional path argument is absent
\* (const char *path = 0).
NoPath == <<-1>>

\* The result of a path resolution: the leaf (0 for none) and the fault the
\* resolution ran into: "segv" for a read through a pointer that is null or
\* Wild, "stray" for a read or write of a word of memory that is no leaf,
\* after which what the process does is not determined by the document.
\* over tells that the resolution has written behind the last entry of the
\* local array it works on.
Found(leaf)   == [leaf |-> leaf, fault |-> "", over |-> FALSE]
Faulted(what) == [leaf |-> 0, fault |-> what, over |-> FALSE]

\* The result r of a resolution that has written entry i of the local
\* Leaf stack[MAX_STACK]: from entry MAX_STACK on the write is behind the
\* array, in the rest of the stack frame of get_doc_leaf.
Past(r, i) == IF i >= MAX_STACK THEN [r EXCEPT !.over = TRUE] ELSE r

\* What a call makes of a resolution r.  A write behind the local array is
\* undefined: in one build the words written are not used by anything else
\* and are read back, and the call goes on with r; in another they hold a
\* local, a saved register, the stack guard or the return address, and
\* what the process does from there on (it is killed as a rule) is not
\* determined by the document.
Builds(r) == IF r.over THEN {r, [r EXCEPT !.leaf = 0, !.fault = "stray"]} ELSE {r}

\* The same for memcpy(save_path, doc->where_path, sizeof(Leaf) * wlen)
\* into the local Leaf save_path[MAX_STACK] of doc_each_leaf and
\* doc_each_child: the faults the call may enter its traversal with.
Overrun(wlen) == IF wlen > MAX_STACK THEN {"", "stray"} ELSE {""}

\* get_leaf(stack, lp, path) on the scratch stack.  lp++ ; *lp = e has no
\* test of the depth ("TBD fail if stack too deep"): from depth
\* MAX_STACK - 1 on the store is behind the local array.  The stack that
\* is passed on is the one of the build that reads the store back.
RECURSIVE get_leaf(_, _, _)
get_leaf(stack, lp, path) ==
    LET leaf == stack[lp] IN
    IF Ch(path, 1) = 0 THEN Found(leaf)
    ELSE IF Ch(path, 1) = Ascii["."] /\ Ch(path, 2) = Ascii["."]
    THEN LET p2 == From(path, 3)
             p3 == IF Ch(p2, 1) = Ascii["/"] THEN From(p2, 2) ELSE p2
         IN  IF 0 < lp THEN get_leaf(stack, lp - 1, p3) ELSE Found(0)
    ELSE IF leaf = 0 \/ leaf = Wild THEN Faulted("segv")
    ELSE IF leaf \in Strays
    THEN IF Leaf(leaf).value_type = COL_VAL THEN Faulted("stray") ELSE Found(leaf)
    ELSE IF value_type[leaf] = COL_VAL /\ Leaf(leaf).elements # 0
    THEN LET first == Leaf(Leaf(leaf).elements).next IN
         IF Leaf(leaf).type = T_ARRAY
         THEN LET n   == DigitsLen(path)
                  cnt == DigitsVal(path, 0)
                  p2  == From(path, n + 1)
                  p3  == IF Ch(p2, 1) = Ascii["/"] THEN From(p2, 2) ELSE p2
                  e   == ArrayFind(first, first, cnt)
              IN  IF e = 0 THEN Found(0)
                  ELSE Past(get_leaf(Store(stack, lp + 1, e), lp + 1, p3), lp + 1)
         ELSE IF Leaf(leaf).type = T_HASH
         THEN LET slash == SlashAt(path)
                  klen  == IF slash < 0 THEN Len(path) ELSE slash
                  p3    == IF slash < 0 THEN From(path, klen + 1)
                           ELSE From(path, klen + 2)
                  e     == HashFind(first, first, path, klen)
              IN  IF e = 0 THEN Found(0)
                  ELSE Past(get_leaf(Store(stack, lp + 1, e), lp + 1, p3), lp + 1)
         ELSE Found(0)
    ELSE Found(leaf)

\* The local Leaf stack[MAX_STACK] of get_doc_leaf, and from index
\* MAX_STACK on the memory behind it, after memcpy(stack, doc->where_path,
\* sizeof(Leaf) * cnt): entries below cnt are copies, the others are
\* uninitialised and hold g.  For cnt > MAX_STACK this is the stack of the
\* build in which the words behind the array are read back as written.
ScratchStack(wp, cnt, g) ==
    [i \in 0..(IF cnt > MAX_STACK THEN cnt ELSE MAX_STACK) |->
        IF i < cnt THEN wp[i] ELSE g]

\* get_doc_leaf(doc, path) with the cursor (wp, w); g is what the
\* uninitialised entries of the local stack happen to hold.  The memcpy of
\* cnt = w entries has no test of cnt against MAX_STACK: the last entry it
\* writes is w - 1.
get_doc_leaf(wp, w, path, g) ==
    IF data # 0 /\ path # NoPath
    THEN IF Ch(path, 1) = Ascii["/"]
         THEN get_leaf([ScratchStack(wp, 0, g) EXCEPT ![0] = data], 0, From(path, 2))
         ELSE Past(get_leaf(ScratchStack(wp, w, g), w, path), w - 1)
    ELSE Found(wp[w])

\* ------------------------------------------------------------- leaf_value

\* Host values: t the class, n the number of an Integer, s the bytes of a
\* String or the text of a Float, k and a the keys and values of a Hash, a
\* the elements of an Array.
HostValue(t, n, s, k, a) == [t |-> t, n |-> n, s |-> s, k |-> k, a |-> a]
Qnil   == HostValue("NilClass", 0, <<>>, <<>>, <<>>)
Qtrue  == HostValue("TrueClass", 0, <<>>, <<>>, <<>>)
Qfalse == HostValue("FalseClass", 0, <<>>, <<>>, <<>>)

\* leaf_fixnum_value: optional sign, then digits up to the first non-digit.
leaf_fixnum_value(str) ==
    LET neg  == Ch(str, 1) = Ascii["-"]
        body == IF Ch(str, 1) \in {Ascii["-"], Ascii["+"]} THEN From(str, 2) ELSE str
        n    == fixnum_digits(body, 0)
    IN  HostValue("Integer", IF neg THEN 0 - n ELSE n, <<>>, <<>>, <<>>)

\* rb_hash_aset(h, key, val): a present key keeps its place and takes the
\* new value.
hash_aset(h, key, val) ==
    IF \E i \in 1..Len(h.k) : h.k[i] = key
    THEN LET i == CHOOSE i \in 1..Len(h.k) : h.k[i] = key
         IN  [h EXCEPT !.a[i] = val]
    ELSE [h EXCEPT !.k = Append(@, key), !.a = Append(@, val)]

\* The ring of a collection from first, in order.
RECURSIVE Ring(_, _)
Ring(first, e) ==
    <<e>> \o (IF Leaf(e).next = first THEN <<>> ELSE Ring(first, Leaf(e).next))

Children(leaf) ==
    IF Leaf(leaf).elements = 0 THEN <<>>
    ELSE LET first == Leaf(Leaf(leaf).elements).next IN Ring(first, first)

\* leaf_value(doc, leaf), with leaf_array_value and leaf_hash_value: the
\* host value of the leaf.
RECURSIVE leaf_value(_)
RECURSIVE hash_fill(_, _, _)
hash_fill(h, es, i) ==
    IF i > Len(es) THEN h
    ELSE hash_fill(hash_aset(h, CStr(Leaf(es[i]).key), leaf_value(es[i])), es, i + 1)

leaf_value(leaf) ==
    LET type == Leaf(leaf).type IN
    CASE type = T_NIL    -> Qnil
      [] type = T_TRUE   -> Qtrue
      [] type = T_FALSE  -> Qfalse
      [] type = T_FIXNUM -> leaf_fixnum_value(CStr(Leaf(leaf).str))
      [] type = T_FLOAT  -> HostValue("Float", 0, CStr(Leaf(leaf).str), <<>>, <<>>)
      [] type = T_STRING -> HostValue("String", 0, CStr(Leaf(leaf).str), <<>>, <<>>)
      [] type = T_ARRAY  ->
            LET es == Children(leaf) IN
            HostValue("Array", 0, <<>>, <<>>, [i \in 1..Len(es) |-> leaf_value(es[i])])
      [] type = T_HASH   ->
            hash_fill(HostValue("Hash", 0, <<>>, <<>>, <<>>), Children(leaf), 1)

\* The leaves leaf_value(doc, leaf) reaches whose value it caches: strings
\* and numbers (nil, true and false keep their value_type).
RECURSIVE LeavesUnder(_)
LeavesUnder(leaf) ==
    IF Leaf(leaf).type \in {T_ARRAY, T_HASH}
    THEN LET es == Children(leaf) IN
         UNION {LeavesUnder(es[i]) : i \in 1..Len(es)}
    ELSE IF Leaf(leaf).type \in {T_STRING, T_FIXNUM, T_FLOAT} THEN {leaf}
    ELSE {}

\* value_type after leaf_value(doc, leaf): every string and number it
\* converted is RUBY_VAL, collections stay COL_VAL.
Materialized(vt, leaf) ==
    [n \in DOMAIN vt |-> IF n \in LeavesUnder(leaf) THEN RUBY_VAL ELSE vt[n]]

\* --------------------------------------------------------------- doc_where

\* ulong_fill: the decimal digits of num, "0" for 0.
RECURSIVE ulong_digits(_)
ulong_digits(num) ==
    IF 0 < num THEN Append(ulong_digits(num \div 10), (num % 10) + Ascii["0"])
    ELSE <<>>

ulong_fill(num) ==
    IF ulong_digits(num) = <<>> THEN <<Ascii["0"]>> ELSE ulong_digits(num)

\* What the second loop of doc_where writes for where_path[0..i].
RECURSIVE where_fill(_, _)
where_fill(wp, i) ==
    LET leaf == wp[i]
        step == IF Leaf(leaf).parent_type = T_HASH THEN CStr(Leaf(leaf).key)
                ELSE IF Leaf(leaf).parent_type = T_ARRAY
                THEN ulong_fill(Leaf(leaf).index)
                ELSE <<>>
    IN  (IF i = 0 THEN <<>> ELSE where_fill(wp, i - 1)) \o step \o <<Ascii["/"]>>

\* doc_where: the path string, or the fault of reading through a null
\* entry of where_path.
doc_where(wp, w) ==
    IF wp[0] = 0 \/ w = 0 THEN [str |-> <<Ascii["/"]>>, fault |-> ""]
    ELSE IF \E i \in 0..w : wp[i] = 0 THEN [str |-> <<>>, fault |-> "segv"]
    ELSE LET filled == where_fill(wp, w)
         IN  [str |-> SubSeq(filled, 1, Len(filled) - 1), fault |-> ""]

\* ------------------------------------------------------------------ inputs

\* The most steps a path given to a method has.
MaxSteps == 2

\* The steps paths are made of: "..", "1", "2" and "a".
StepSet ==
    {Bytes(<<".", ".">>), Bytes(<<"1">>), Bytes(<<"2">>), Bytes(<<"a">>)}

\* The relative paths of at most n steps, steps joined by '/'.
RECURSIVE RelPathsUpTo(_)
RelPathsUpTo(n) ==
    IF n = 0 THEN {<<>>}
    ELSE LET shorter == RelPathsUpTo(n - 1) IN
         shorter \cup StepSet
                 \cup {p \o <<Ascii["/"]>> \o st : p \in shorter \ {<<>>}, st \in StepSet}

RelPaths == RelPathsUpTo(MaxSteps)
AbsPaths == {<<Ascii["/"]>> \o p : p \in RelPaths}
Paths    == RelPaths \cup AbsPaths

\* The leaves of the document's tree.  The arena also holds the cells
\* read_num allocated and dropped: leaf_init has set their type to T_FIXNUM
\* and their value_type to STR_VAL, and their str was never assigned.
Linked == {n \in Leaves : n = data \/ Leaf(n).parent_type # T_NONE}

\* What an uninitialised Leaf slot may hold: null, a pointer to any cell of
\* the arena, as left there by an earlier call, or a bit pattern that points
\* to no leaf.
Garbage == {0, Wild} \cup Strays \cup Leaves

\* The values of g that can make a difference to get_doc_leaf(path).  The
\* uninitialised slot stack[cnt] is read only for a relative path, and not
\* for one that starts with "..": below the root get_leaf returns 0, and
\* elsewhere it steps down to a copied entry and every later step up
\* comes to an entry a step down has stored.
GarbageFor(path) ==
    IF /\ path # NoPath
       /\ Ch(path, 1) # Ascii["/"]
       /\ ~(Ch(path, 1) = Ascii["."] /\ Ch(path, 2) = Ascii["."])
    THEN Garbage ELSE {0}

\* ----------------------------------------------------------------- history

\* The record of the last call: op the method, loc what move_step returned,
\* leaf the leaf a resolution found, val the host value returned, str the
\* string returned, res the class returned by type or how an each_leaf /
\* each_child call ended.
Last(op, loc, leaf, val, str, res) ==
    [op |-> op, loc |-> loc, leaf |-> leaf, val |-> val, str |-> str,
     res |-> res]

\* The history of a traversal: wp and w the cursor when the call was made,
\* start the leaf the traversal was entered on, seen the leaves the block
\* was yielded so far.
NoPre  == [wp |-> [i \in Words |-> 0], w |-> -1, start |-> 0,
           seen |-> <<>>]

\* The most each_leaf, each_child and each_value calls that are in progress
\* at a time, each but the first made by the block of the one before it.
MaxNest == 3

\* A call of each_leaf, each_child or each_value that has yielded to its
\* block: frames the (first, e) locals of its loops, save_path and wlen the
\* locals of doc_each_leaf / doc_each_child, hist its history, outer the
\* calls in whose blocks it was made, the first made first.
NoIter == [kind |-> "none", start |-> 0, frames |-> <<>>, save_path |-> <<>>,
           wlen |-> 0, hist |-> NoPre, outer |-> <<>>]

\* The calls in progress when the block of iter makes one more, and whether
\* the blocks of the model make one more.
Enclosing == IF iter.kind = "none" THEN <<>>
             ELSE Append(iter.outer, [iter EXCEPT !.outer = <<>>])
MayNest   == Len(Enclosing) < MaxNest

\* The call in progress when the last of the calls of outer is returned to,
\* none when outer is empty.
Innermost(outer) ==
    IF outer = <<>> THEN NoIter
    ELSE [outer[Len(outer)] EXCEPT !.outer = SubSeq(outer, 1, Len(outer) - 1)]

\* pre is the history of the traversal that yielded, returned or was left
\* last; the first call after that sets it back to the history of the
\* traversal whose block is running.
DropPre == pre' = iter.hist

\* A method called on a handle after parse_json has returned.  When its
\* DATA_PTR is 0, Doc doc = DATA_PTR(self) is a null pointer and the first
\* access through it (doc->where, doc->where_path, doc->data, doc->size)
\* dereferences it.  When parse_json has not set it to 0, doc points to the
\* struct _Doc in the stack frame parse_json has left.
null_doc(op) ==
    /\ fault' = IF DATA_PTR = 0 THEN "segv" ELSE "stray"
    /\ last' = Last(op, 0, 0, Qnil, <<>>, "")
    /\ UNCHANGED <<doc, DATA_PTR, batches, pc, value_type, where_path, where, iter,
                   pre>>

\* ------------------------------------------------------------------- Init

\* The Doc as the scan pi leaves it, doc->data set from what read_next
\* returned.
Doc(pi) ==
    [json |-> pi.json, str |-> pi.str, leaves |-> pi.leaves, size |-> pi.size,
     data |-> pi.ret, writes |-> pi.writes]

\* The Batch structs leaf_new has ALLOCed for the leaves of pi: batch0 is
\* part of the Doc and holds the first BATCH_SIZE leaves, and every further
\* BATCH_SIZE leaves take one more Batch.
Batches(pi) ==
    IF Len(pi.leaves) = 0 THEN 0 ELSE (Len(pi.leaves) - 1) \div BATCH_SIZE

\* The state when protect_open_proc yields the Doc to the block: the text
\* is parsed, where_path[0] is the root, where is where_path and doc->size
\* is the count.  The other entries of where_path are uninitialised; none
\* is read before it is written, so they start as 0.
Opened(pi) ==
    /\ doc = Doc(pi)
    /\ DATA_PTR = 1
    /\ batches = Batches(pi)
    /\ pc = "block"
    /\ value_type = [n \in 1..Len(pi.leaves) |-> pi.leaves[n].value_type]
    /\ where_path = DocWords(pi.ret, pi.size)
    /\ where = 0
    /\ iter = NoIter
    /\ pre = NoPre
    /\ last = Last("open", 0, 0, Qnil, <<>>, "")
    /\ fault = ""

Init == \E j \in 1..Len(Parsed) : Opened(Parsed[j])

\* ---------------------------------------------------------------- methods

\* doc_move(self, str).  On a handle whose DATA_PTR is 0 the empty path is
\* the one that reads nothing through doc: *path is neither '/' nor a step
\* and move_step returns 0 at once.
doc_move(path) ==
    /\ fault = ""
    /\ pc # "protect"
    /\ IF pc = "closed"
       THEN IF path = <<>>
            THEN /\ last' = Last("move", 0, 0, Qnil, <<>>, "")
                 /\ UNCHANGED <<doc, DATA_PTR, batches, pc, value_type, where_path,
                                where, iter, pre, fault>>
            ELSE null_doc("move")
       ELSE /\ LET r == MoveFrom(where_path, where, path) IN
               /\ where_path' = r.c.wp
               /\ where' = r.c.w
               /\ fault' = r.c.fault
               /\ last' = Last("move", r.loc, 0, Qnil, <<>>, "")
            /\ DropPre
            /\ UNCHANGED <<doc, DATA_PTR, batches, pc, value_type, iter>>

\* doc_home(self)
doc_home ==
    /\ fault = ""
    /\ pc # "protect"
    /\ IF pc = "closed" THEN null_doc("home")
       ELSE /\ where_path' = [where_path EXCEPT ![0] = data]
            /\ where' = 0
            /\ last' = Last("home", 0, 0, Qnil, <<Ascii["/"]>>, "")
            /\ DropPre
            /\ UNCHANGED <<doc, DATA_PTR, batches, pc, value_type, iter, fault>>

\* doc_where(self)
doc_where_call ==
    /\ fault = ""
    /\ pc # "protect"
    /\ IF pc = "closed" THEN null_doc("where")
       ELSE /\ LET r == doc_where(where_path, where) IN
               /\ fault' = r.fault
               /\ last' = Last("where", 0, 0, Qnil, r.str, "")
            /\ DropPre
            /\ UNCHANGED <<doc, DATA_PTR, batches, pc, value_type, where_path, where, iter>>

\* doc_local_key(self)
doc_local_key ==
    /\ fault = ""
    /\ pc # "protect"
    /\ IF pc = "closed" THEN null_doc("local_key")
       ELSE /\ LET leaf == where_path[where] IN
               IF leaf = 0
               THEN /\ fault' = "segv"
                    /\ last' = Last("local_key", 0, 0, Qnil, <<>>, "")
               ELSE /\ fault' = ""
                    /\ last' = Last("local_key", 0, leaf,
                           IF Leaf(leaf).parent_type = T_HASH
                           THEN HostValue("String", 0, CStr(Leaf(leaf).key), <<>>, <<>>)
                           ELSE IF Leaf(leaf).parent_type = T_ARRAY
                           THEN HostValue("Integer", Leaf(leaf).index, <<>>, <<>>, <<>>)
                           ELSE Qnil,
                           <<>>, "")
            /\ DropPre
            /\ UNCHANGED <<doc, DATA_PTR, batches, pc, value_type, where_path, where, iter>>

\* The class doc_type returns for a leaf type.
TypeClass(type) ==
    CASE type = T_NIL    -> "NilClass"
      [] type = T_TRUE   -> "TrueClass"
      [] type = T_FALSE  -> "FalseClass"
      [] type = T_STRING -> "String"
      [] type = T_FIXNUM -> "Fixnum"
      [] type = T_FLOAT  -> "Float"
      [] type = T_ARRAY  -> "Array"
      [] type = T_HASH   -> "Hash"
      [] OTHER -> "nil"

\* The fault of reading the fields of the leaf a resolution returned: a
\* Wild pointer cannot be read.
Deref(r) == IF r.leaf = Wild THEN "segv" ELSE r.fault

\* leaf_value(doc, leaf) on a stray pointer raises from the default branch
\* of its switch when the value_type read is not RUBY_VAL and the type read
\* is no leaf type.  Every other way through it returns the value word,
\* stores one, or reads the str or elements word of memory that is no leaf.
StrayRaises(leaf) ==
    leaf \in Strays /\ Leaf(leaf).value_type # RUBY_VAL /\ Leaf(leaf).type = T_NONE

\* The fault of leaf_value(doc, leaf) for the leaf a resolution returned.
ValueFault(r) ==
    IF Deref(r) # "" THEN Deref(r)
    ELSE IF r.leaf \in Strays /\ ~StrayRaises(r.leaf) THEN "stray"
    ELSE IF r.leaf \in Leaves \ Linked THEN "stray"
    ELSE ""

\* doc_type(argc, argv, self)
doc_type(path, g) ==
    /\ fault = ""
    /\ pc # "protect"
    /\ IF pc = "closed" THEN null_doc("type")
       ELSE /\ \E r \in Builds(get_doc_leaf(where_path, where, path, g)) :
               /\ fault' = Deref(r)
               /\ last' = Last("type", 0, r.leaf, Qnil, <<>>,
                               IF r.leaf \in Leaves \cup Strays
                               THEN TypeClass(Leaf(r.leaf).type)
                               ELSE "nil")
            /\ DropPre
            /\ UNCHANGED <<doc, DATA_PTR, batches, pc, value_type, where_path, where, iter>>

\* Where the object leaf_value(doc, leaf) returns comes from: leaf->value as
\* an earlier call stored it ("cached", RUBY_VAL == leaf->value_type), or an
\* object this call creates ("new").
Origin(leaf) ==
    IF leaf \notin Linked THEN ""
    ELSE IF value_type[leaf] = RUBY_VAL THEN "cached" ELSE "new"

\* How leaf_value(doc, leaf) ends for the leaf a resolution returned, when
\* it is called: with rb_raise(rb_eTypeError, "Unexpected type %02x.") for
\* a stray pointer whose type is no leaf type, else with the Origin of the
\* object.
Outcome(leaf) == IF StrayRaises(leaf) THEN "TypeError" ELSE Origin(leaf)

\* A doc_fetch that, like doc_move, sets where back to where_path when the
\* path is absolute.
doc_fetch_rewinding(path, g) ==
    /\ fault = ""
    /\ pc # "protect"
    /\ IF pc = "closed" THEN null_doc("fetch")
       ELSE /\ \E r \in Builds(get_doc_leaf(where_path, where, path, g)) :
               /\ fault' = ValueFault(r)
               /\ value_type' = IF r.leaf \in Linked
                                THEN Materialized(value_type, r.leaf) ELSE value_type
               /\ last' = Last("fetch", 0, r.leaf,
                               IF r.leaf \in Linked THEN leaf_value(r.leaf) ELSE Qnil,
                               <<>>, Outcome(r.leaf))
            /\ where' = IF path # NoPath /\ Ch(path, 1) = Ascii["/"] THEN 0 ELSE where
            /\ DropPre
            /\ UNCHANGED <<doc, DATA_PTR, batches, pc, where_path, iter>>

\* doc_fetch(argc, argv, self), without a default value
doc_fetch(path, g) ==
    /\ fault = ""
    /\ pc # "protect"
    /\ IF pc = "closed" THEN null_doc("fetch")
       ELSE /\ \E r \in Builds(get_doc_leaf(where_path, where, path, g)) :
               /\ fault' = ValueFault(r)
               /\ value_type' = IF r.leaf \in Linked
                                THEN Materialized(value_type, r.leaf) ELSE value_type
               /\ last' = Last("fetch", 0, r.leaf,
                               IF r.leaf \in Linked THEN leaf_value(r.leaf) ELSE Qnil,
                               <<>>, Outcome(r.leaf))
            /\ DropPre
            /\ UNCHANGED <<doc, DATA_PTR, batches, pc, where_path, where, iter>>

\* doc_dump(argc, argv, self): val is the value handed to the serializer
doc_dump(path, g) ==
    /\ fault = ""
    /\ pc # "protect"
    /\ IF pc = "closed" THEN null_doc("dump")
       ELSE /\ \E r \in Builds(get_doc_leaf(where_path, where, path, g)) :
               /\ fault' = ValueFault(r)
               /\ value_type' = IF r.leaf \in Linked
                                THEN Materialized(value_type, r.leaf) ELSE value_type
               /\ last' = Last("dump", 0, r.leaf,
                               IF r.leaf \in Linked THEN leaf_value(r.leaf) ELSE Qnil,
                               <<>>, IF StrayRaises(r.leaf) THEN "TypeError" ELSE "")
            /\ DropPre
            /\ UNCHANGED <<doc, DATA_PTR, batches, pc, where_path, where, iter>>

\* Where an each_value call stands: leaf the leaf whose value it yields,
\* frames the (first, e) locals of the each_value calls that are in their
\* loop, and whether it has yielded to the block or returned.
Visiting(leaf, frames, status) == [leaf |-> leaf, frames |-> frames, status |-> status]

\* each_value(doc, leaf) run until the next rb_yield(leaf_value(doc, leaf));
\* each_value_resume continues after a call of each_value has returned into
\* the loop of the innermost frame.
RECURSIVE each_value(_, _), each_value_resume(_)
each_value(leaf, frames) ==
    IF value_type[leaf] = COL_VAL
    THEN IF Leaf(leaf).elements # 0
         THEN LET first == Leaf(Leaf(leaf).elements).next IN
              each_value(first, Append(frames, [first |-> first, e |-> first]))
         ELSE each_value_resume(frames)
    ELSE Visiting(leaf, frames, "yield")

each_value_resume(frames) ==
    IF frames = <<>> THEN Visiting(0, frames, "done")
    ELSE LET f  == frames[Len(frames)]
             e2 == Leaf(f.e).next
         IN  IF e2 # f.first
             THEN each_value(e2, [frames EXCEPT ![Len(frames)].e = e2])
             ELSE each_value_resume(SubSeq(frames, 1, Len(frames) - 1))

\* The state a step r of each_value leaves: at a yield the leaf's value has
\* been made and the block runs with it; on return the call in whose block
\* each_value was called goes on.  start is the leaf doc_each_value
\* resolved, p the history so far, outer the calls in progress around it.
value_step(start, r, p, outer) ==
    /\ pre' = IF r.status = "yield" THEN [p EXCEPT !.seen = Append(@, r.leaf)] ELSE p
    /\ value_type' = IF r.status = "yield" THEN Materialized(value_type, r.leaf)
                     ELSE value_type
    /\ iter' = IF r.status = "yield"
               THEN [kind |-> "each_value", start |-> start, frames |-> r.frames,
                     save_path |-> <<>>, wlen |-> 0,
                     hist |-> [p EXCEPT !.seen = Append(@, r.leaf)], outer |-> outer]
               ELSE Innermost(outer)
    /\ last' = IF r.status = "yield"
               THEN Last("yield", 0, r.leaf, leaf_value(r.leaf), <<>>, "each_value")
               ELSE Last("each_value", 0, 0, Qnil, <<>>, r.status)

\* The fault of each_value(doc, leaf) for a leaf r.leaf that is no leaf of
\* the document: a stray pointer whose value_type reads COL_VAL has its
\* elements word read, any other is passed to leaf_value.
StrayVisit(r) ==
    IF r.leaf \in Strays /\ Leaf(r.leaf).value_type = COL_VAL /\ Deref(r) = ""
    THEN "stray"
    ELSE ValueFault(r)

\* doc_each_value from the leaf r that get_doc_leaf returned, up to the
\* first yield.
value_start(r) ==
    LET p == [NoPre EXCEPT !.wp = where_path, !.w = where,
                           !.start = IF r.leaf \in Linked THEN r.leaf ELSE 0]
    IN  IF r.leaf \in Linked
        THEN /\ value_step(r.leaf, each_value(r.leaf, <<>>), p, Enclosing)
             /\ fault' = ""
        ELSE /\ fault' = StrayVisit(r)
             /\ last' = Last("each_value", 0, 0, Qnil, <<>>,
                             IF StrayVisit(r) # "" THEN "fault"
                             ELSE IF StrayRaises(r.leaf) THEN "TypeError"
                             ELSE "done")
             /\ pre' = p
             /\ UNCHANGED <<value_type, iter>>

\* A doc_each_value that resolves its path on the cursor itself, as
\* doc_each_leaf does, and leaves the cursor on the node it resolved.
doc_each_value_moving(path, g) ==
    /\ fault = ""
    /\ pc # "protect"
    /\ IF pc = "closed" THEN null_doc("each_value")
       ELSE /\ LET m == IF path = NoPath
                        THEN [c |-> Cursor(where_path, where), loc |-> 0]
                        ELSE MoveFrom(where_path, where, path)
               IN  /\ where_path' = m.c.wp
                   /\ where' = m.c.w
                   /\ value_start(IF m.loc = 0 /\ m.c.fault = ""
                                  THEN Found(m.c.wp[m.c.w]) ELSE Found(0))
            /\ UNCHANGED <<doc, DATA_PTR, batches, pc>>

\* doc_each_value(argc, argv, self), up to the first yield
doc_each_value(path, g) ==
    /\ fault = ""
    /\ pc # "protect"
    /\ IF pc = "closed" THEN null_doc("each_value")
       ELSE /\ \E r \in Builds(get_doc_leaf(where_path, where, path, g)) :
                  value_start(r)
            /\ UNCHANGED <<doc, DATA_PTR, batches, pc, where_path, where>>

\* doc_size(self): ULONG2NUM(doc->size), the count the parser left there
\* or, after a store of the cursor at index MAX_STACK + 1, the Leaf stored
\* as a number.
doc_size ==
    /\ fault = ""
    /\ pc # "protect"
    /\ IF pc = "closed" THEN null_doc("size")
       ELSE /\ LET word == where_path[MAX_STACK + 1]
                   size == IF word = SizeWord(doc.size) THEN doc.size
                           ELSE IF word = 0 THEN 0
                           ELSE Address(word)
               IN  last' = Last("size", 0, 0,
                                HostValue("Integer", size, <<>>, <<>>, <<>>), <<>>, "")
            /\ DropPre
            /\ UNCHANGED <<doc, DATA_PTR, batches, pc, value_type, where_path, where, iter, fault>>

\* ------------------------------------------------- each_leaf, each_child

\* Where a traversal stands: the cursor, the (first, e) locals of the
\* each_leaf calls that are in their loop, and whether it has yielded to
\* the block, returned, or faulted.
Running(c, frames, status) == [c |-> c, frames |-> frames, status |-> status]

\* each_leaf(doc, self) entered on cursor c, run until the next rb_yield;
\* each_leaf_resume continues after a call of each_leaf has returned into
\* the loop of the innermost frame.
RECURSIVE each_leaf(_, _), each_leaf_resume(_, _)
each_leaf(c, frames) ==
    LET leaf == c.wp[c.w] IN
    IF c.fault # "" THEN Running(c, frames, "fault")
    ELSE IF leaf = 0 THEN Running([c EXCEPT !.fault = "segv"], frames, "fault")
    ELSE IF value_type[leaf] = COL_VAL
    THEN IF Leaf(leaf).elements # 0
         THEN LET first == Leaf(Leaf(leaf).elements).next IN
              each_leaf(Push(c, first), Append(frames, [first |-> first, e |-> first]))
         ELSE each_leaf_resume(c, frames)
    ELSE Running(c, frames, "yield")

each_leaf_resume(c, frames) ==
    IF frames = <<>> THEN Running(c, frames, "done")
    ELSE LET f  == frames[Len(frames)]
             e2 == Leaf(f.e).next
         IN  IF e2 # f.first
             THEN each_leaf([c EXCEPT !.wp[c.w] = e2],
                            [frames EXCEPT ![Len(frames)].e = e2])
             ELSE each_leaf_resume(c, SubSeq(frames, 1, Len(frames) - 1))

\* The body of doc_each_child after the path is resolved, up to the first
\* rb_yield, and its continuation after a yield.
each_child(c) ==
    LET leaf == c.wp[c.w] IN
    IF c.fault # "" THEN Running(c, <<>>, "fault")
    ELSE IF leaf = 0 THEN Running([c EXCEPT !.fault = "segv"], <<>>, "fault")
    ELSE IF value_type[leaf] = COL_VAL /\ Leaf(leaf).elements # 0
    THEN LET first == Leaf(Leaf(leaf).elements).next IN
         Running(Push(c, first), <<[first |-> first, e |-> first]>>, "yield")
    ELSE Running(c, <<>>, "done")

each_child_resume(c, frames) ==
    LET f  == frames[1]
        e2 == Leaf(f.e).next
    IN  IF e2 # f.first
        THEN Running([c EXCEPT !.wp[c.w] = e2], <<[first |-> f.first, e |-> e2]>>,
                     "yield")
        ELSE Running(c, <<>>, "done")

\* memcpy(save_path, doc->where_path, sizeof(Leaf) * wlen) and back, in
\* the build in which the words behind save_path[MAX_STACK] are read back
\* as written.
SavePath(wp, wlen) == [i \in 1..wlen |-> wp[i - 1]]
RestorePath(wp, save_path, wlen) ==
    [i \in DOMAIN wp |-> IF i < wlen THEN save_path[i + 1] ELSE wp[i]]

\* The history of a traversal after one of its steps: p with the leaf just
\* yielded added to seen.
Seen(p, r) ==
    IF r.status = "yield" THEN [p EXCEPT !.seen = Append(@, r.c.wp[r.c.w])] ELSE p

\* The state a traversal step leaves: at a yield the block runs with the
\* cursor as it is; on return where_path[0..wlen-1] is copied back and the
\* call in whose block the traversal was called goes on.  start is the leaf
\* the traversal was entered on, p the history so far, outer the calls in
\* progress around it.
Settle(kind, start, r, save_path, wlen, p, outer) ==
    /\ pre' = Seen(p, r)
    /\ fault' = r.c.fault
    /\ where' = r.c.w
    /\ where_path' = IF r.status = "done" THEN RestorePath(r.c.wp, save_path, wlen)
                     ELSE r.c.wp
    /\ iter' = IF r.status = "yield"
               THEN [kind |-> kind, start |-> start, frames |-> r.frames,
                     save_path |-> save_path, wlen |-> wlen, hist |-> Seen(p, r),
                     outer |-> outer]
               ELSE Innermost(outer)
    /\ last' = IF r.status = "yield"
               THEN Last("yield", 0, r.c.wp[r.c.w], Qnil, <<>>, kind)
               ELSE Last(kind, 0, 0, Qnil, <<>>, r.status)

\* The path argument of doc_each_leaf and doc_each_child: the cursor and
\* loc after if (1 <= argc) { ... move_step(doc, path, 1) }.
Position(path) ==
    IF path = NoPath THEN [c |-> Cursor(where_path, where), loc |-> 0]
    ELSE MoveFrom(where_path, where, path)

\* doc_each_leaf(argc, argv, self), up to the first yield
doc_each_leaf(path) ==
    /\ fault = ""
    /\ pc # "protect"
    /\ IF pc = "closed" THEN null_doc("each_leaf")
       ELSE /\ \E over \in Overrun(where) :
               LET wlen      == where
                   save_path == SavePath(where_path, wlen)
                   to        == Position(path)
                   m         == [to EXCEPT !.c.fault = IF over # "" THEN over ELSE @]
                   p         == [NoPre EXCEPT !.wp = where_path, !.w = where]
               IN  IF m.loc # 0
                   THEN /\ where_path' = RestorePath(m.c.wp, save_path, wlen)
                        /\ where' = m.c.w
                        /\ last' = Last("each_leaf", m.loc, 0, Qnil, <<>>, "nopath")
                        /\ pre' = p
                        /\ fault' = m.c.fault
                        /\ UNCHANGED iter
                   ELSE Settle("each_leaf", m.c.wp[m.c.w], each_leaf(m.c, <<>>), save_path, wlen,
                               [p EXCEPT !.start = m.c.wp[m.c.w]], Enclosing)
            /\ UNCHANGED <<doc, DATA_PTR, batches, pc, value_type>>

\* doc_each_child(argc, argv, self), up to the first yield
doc_each_child(path) ==
    /\ fault = ""
    /\ pc # "protect"
    /\ IF pc = "closed" THEN null_doc("each_child")
       ELSE /\ \E over \in Overrun(where) :
               LET wlen      == where
                   save_path == SavePath(where_path, wlen)
                   to        == Position(path)
                   m         == [to EXCEPT !.c.fault = IF over # "" THEN over ELSE @]
                   p         == [NoPre EXCEPT !.wp = where_path, !.w = where]
               IN  IF m.loc # 0
                   THEN /\ where_path' = RestorePath(m.c.wp, save_path, wlen)
                        /\ where' = m.c.w
                        /\ last' = Last("each_child", m.loc, 0, Qnil, <<>>, "nopath")
                        /\ pre' = p
                        /\ fault' = m.c.fault
                        /\ UNCHANGED iter
                   ELSE Settle("each_child", m.c.wp[m.c.w], each_child(m.c), save_path, wlen,
                               [p EXCEPT !.start = m.c.wp[m.c.w]], Enclosing)
            /\ UNCHANGED <<doc, DATA_PTR, batches, pc, value_type>>

\* The block returns from rb_yield: the traversal goes on to its next
\* yield or to the end of doc_each_leaf / doc_each_child / doc_each_value.
block_return ==
    /\ fault = ""
    /\ iter.kind # "none"
    /\ IF iter.kind = "each_value"
       THEN /\ value_step(iter.start, each_value_resume(iter.frames), iter.hist,
                          iter.outer)
            /\ UNCHANGED <<doc, DATA_PTR, batches, pc, where_path, where, fault>>
       ELSE /\ Settle(iter.kind, iter.start,
                      IF iter.kind = "each_leaf"
                      THEN each_leaf_resume(Cursor(where_path, where), iter.frames)
                      ELSE each_child_resume(Cursor(where_path, where), iter.frames),
                      iter.save_path, iter.wlen, iter.hist, iter.outer)
            /\ UNCHANGED <<doc, DATA_PTR, batches, pc, value_type>>

\* The block raises: rb_yield does not return and the exception leaves
\* doc_each_leaf / doc_each_child / doc_each_value, whose caller (the block
\* of the call around it, or of open) rescues it.
block_raise ==
    /\ fault = ""
    /\ iter.kind # "none"
    /\ iter' = Innermost(iter.outer)
    /\ pre' = iter.hist
    /\ last' = Last(iter.kind, 0, 0, Qnil, <<>>, "raised")
    /\ UNCHANGED <<doc, DATA_PTR, batches, pc, value_type, where_path, where, fault>>

\* ------------------------------------------------------------ open, close

\* parse_json up to rb_protect: doc_init(&doc), pi.str = json and
\* DATA_PTR(doc.self) = pi.doc.  doc_init writes where_path[0], and 0 to
\* encoding and size.
Allocated(json) ==
    /\ doc = Doc(ParseInfo(json))
    /\ DATA_PTR = 1
    /\ batches = 0
    /\ pc = "protect"
    /\ value_type = <<>>
    /\ where_path = DocWords(0, 0)
    /\ where = 0
    /\ iter = NoIter
    /\ pre = NoPre
    /\ last = Last("open", 0, 0, Qnil, <<>>, "")
    /\ fault = ""

\* doc_free(doc): the while loop xfrees every Batch of doc->batches but
\* batch0; b is the number of ALLOCed batches, the result what is left.
RECURSIVE doc_free(_)
doc_free(b) == IF b = 0 THEN 0 ELSE doc_free(b - 1)

\* parse_json after rb_protect has returned: DATA_PTR(doc.self) = 0,
\* doc_free(pi.doc) and, when ex is set, rb_jump_tag(ex).  b is the number
\* of ALLOCed batches, how the way the protected call ended: "returned",
\* "raised" by the block, or the message the scanner raised.  doc.self and
\* doc->batches are read from the Doc as the cursor has left them.  With a
\* null in doc.self the store through it faults; with a Leaf there the 0
\* is stored in the arena and the handle keeps its pointer to the Doc.
\* With a null in doc->batches the loop of doc_free frees nothing; with a
\* Leaf there, or in batch0.next, the loop calls xfree on a leaf.
parse_json_exit(b, how) ==
    LET self  == where_path[MAX_STACK + 2]
        first == where_path[MAX_STACK + 3]
        next  == where_path[MAX_STACK + 4]
    IN  /\ last' = Last("open", 0, 0, Qnil, <<>>, how)
        /\ IF self = 0
           THEN /\ fault' = "segv"
                /\ UNCHANGED <<DATA_PTR, batches, pc>>
           ELSE /\ DATA_PTR' = IF self = Kept THEN 0 ELSE DATA_PTR
                /\ batches' = IF first = Kept THEN doc_free(b) ELSE b
                /\ fault' = IF first = 0 \/ (first = Kept /\ next = 0) THEN ""
                            ELSE "stray"
                /\ pc' = IF first = 0 \/ (first = Kept /\ next = 0) THEN "closed"
                         ELSE pc

\* protect_open_proc with the scan pi: when the scan has raised, rb_protect
\* returns with ex set and parse_json runs to its end; otherwise doc->data
\* and *doc->where are the leaf read_next returned and the block of open
\* is yielded the Doc.
scanned(pi) ==
    /\ doc' = Doc(pi)
    /\ value_type' = [n \in 1..Len(pi.leaves) |-> pi.leaves[n].value_type]
    /\ IF pi.err # ""
       THEN /\ parse_json_exit(Batches(pi), pi.err)
            /\ where_path' = [where_path EXCEPT ![MAX_STACK + 1] = SizeWord(pi.size)]
       ELSE /\ where_path' = [where_path EXCEPT ![where] = pi.ret,
                                                ![MAX_STACK + 1] = SizeWord(pi.size)]
            /\ batches' = Batches(pi)
            /\ pc' = "block"
            /\ last' = Last("yield", 0, pi.ret, Qnil, <<>>, "open")
            /\ UNCHANGED <<DATA_PTR, fault>>
    /\ UNCHANGED <<where, iter, pre>>

\* rb_protect(protect_open_proc, (VALUE)&pi, &ex)
protect_open_proc ==
    /\ fault = ""
    /\ pc = "protect"
    /\ scanned(read_document(doc.json))

\* The block of open returns: rb_protect returns its value with ex = 0.
open_block_return ==
    /\ fault = ""
    /\ pc = "block"
    /\ iter.kind = "none"
    /\ parse_json_exit(batches, "returned")
    /\ pre' = NoPre
    /\ UNCHANGED <<doc, value_type, where_path, where, iter>>

\* The block of open raises, in its own code or from a block it gave to
\* each_leaf or each_child: rb_protect returns with ex set.
open_block_raise ==
    /\ fault = ""
    /\ pc = "block"
    /\ parse_json_exit(batches, "raised")
    /\ iter' = NoIter
    /\ pre' = NoPre
    /\ UNCHANGED <<doc, value_type, where_path, where>>

\* ------------------------------------------------------------------- Next

\* No traversal is running: the call is not made from the block of one.
Outside == iter.kind = "none"

\* The inputs of S outside a traversal, the inputs of B inside its block.
Given(S, B) == IF Outside THEN S ELSE B

\* The inputs of B with which a block starts one more traversal.
Within(B) == IF MayNest THEN B ELSE {}

\* The paths of P a read is called with: after a call of type, fetch or
\* dump the next read is one that does not read the uninitialised slot.
Again(P) ==
    IF last.op \in {"type", "fetch", "dump"} THEN {p \in P : GarbageFor(p) = {0}}
    ELSE P

\* A step up, the path the blocks of Spec move with.
StepUp == Bytes(<<".", ".">>)

\* Navigation: the methods that move the cursor or report where it is, on
\* every document of Parsed.  The blocks given to each_leaf and each_child
\* call the reporting methods, step up, and then return or raise.
Next ==
    \/ \E path \in Given(Paths, {StepUp}) : doc_move(path)
    \/ Outside /\ doc_home
    \/ doc_where_call
    \/ doc_local_key
    \/ doc_size
    \/ \E path \in Given(Paths \cup {NoPath}, {}) : doc_each_leaf(path)
    \/ \E path \in Given(Paths \cup {NoPath}, {}) : doc_each_child(path)
    \/ block_return
    \/ block_raise

Spec == Init /\ [][Next]_vars

\* Reading: the methods that resolve a path with get_doc_leaf, from every
\* cursor state moves can reach in the document of Text2.  The block of
\* each_value fetches at the cursor.
InitRead == Opened(Parsed[2])

\* The paths dump and each_value are called with: none, the root, a key and
\* an index.
ValuePaths == {NoPath, Bytes(<<"/">>), Bytes(<<"a">>), Bytes(<<"/", "a", "/", "2">>)}

NextRead ==
    \/ \E path \in Given(Paths, {}) : doc_move(path)
    \/ Outside /\ doc_home
    \/ \E path \in Again(Given(Paths \cup {NoPath}, {})) : \E g \in GarbageFor(path) :
          doc_type(path, g)
    \/ \E path \in Again(Given(Paths \cup {NoPath}, {NoPath})) : \E g \in GarbageFor(path) :
          doc_fetch(path, g)
    \/ \E path \in Again(Given(ValuePaths, {})) : \E g \in GarbageFor(path) :
          doc_dump(path, g)
    \/ \E path \in Given(ValuePaths, {}) : \E g \in GarbageFor(path) : doc_each_value(path, g)
    \/ block_return
    \/ block_raise

SpecRead == InitRead /\ [][NextRead]_vars

\* Depth: stepping down and up a document of MAX_STACK + 6 nested arrays,
\* whose number is one step below the last word of the Doc that is no
\* leaf, visiting the leaves of a document of MAX_STACK arrays of one number
\* in an array, reading from there, and the end of the block of open.
DeepPaths == {Bytes(<<"1">>), Bytes(<<".", ".">>)}

InitDeep == Opened(Nested(MAX_STACK + 6)) \/ Opened(Siblings(MAX_STACK))

\* A path that steps up and two steps down again: read at depth
\* MAX_STACK - 1, its last step is stored at entry MAX_STACK of get_leaf's
\* stack.  type reads it, a path of two steps down and the empty path;
\* fetch reads it, where the value it builds is small.
DeepRead == Bytes(<<".", ".", "/", "1", "/", "1">>)

DeepReads == {DeepRead, Bytes(<<"1", "/", "1">>), <<>>}

\* Where the traversals and the reads are called: the traversals from
\* depth MAX_STACK - 1 on, and each_leaf also at the root of the document
\* of sibling arrays; the reads at the depths around MAX_STACK, one read
\* between two calls of other methods.
Reading == where >= MAX_STACK - 1

ReadingAt ==
    where \in (MAX_STACK - 1)..(MAX_STACK + 1) /\ last.op \notin {"type", "fetch"}

AtWideRoot == where = 0 /\ doc.json = SiblingsText(MAX_STACK)

NextDeep ==
    \/ \E path \in Given(DeepPaths, {}) : doc_move(path)
    \/ Outside /\ Reading /\ doc_each_child(NoPath)
    \/ Outside /\ (Reading \/ AtWideRoot) /\ doc_each_leaf(NoPath)
    \/ (Reading \/ ~Outside) /\ doc_size
    \/ \E path \in DeepReads : \E g \in GarbageFor(path) :
          Outside /\ ReadingAt /\ doc_type(path, g)
    \/ Outside /\ ReadingAt /\ doc_fetch(DeepRead, 0)
    \/ block_return
    \/ block_raise
    \/ Reading /\ open_block_return
    \/ Reading /\ open_block_raise

SpecDeep == InitDeep /\ [][NextDeep]_vars

\* Sessions: Oj::Doc.open on texts the scanner accepts and texts it
\* rejects, a block that looks at the document, and the end of the block.
HexPairs == {<<"0", "0">>, <<"0", "9">>, <<"e", "9">>, <<"1", "f">>}

\* A JSON string that is one \uXXXX escape.
UText(hi, lo) == Bytes(<<"\"", "\\", "u">> \o hi \o lo \o <<"\"">>)
UTexts == {UText(hi, lo) : hi \in HexPairs, lo \in HexPairs}

Text4 == Bytes(<<"[", "1", ",", "2", ",", "3", "]">>)
Text5 == Bytes(<<"[", "1", ",", "[", "2", ",", "3", "]", ",",
                 "{", "\"", "a", "\"", ":", "4", "}", "]">>)
Text6 == Bytes(<<"{", "\"", "a", "\"", ":", "\"", "\\", "u", "0", "0", "e", "9",
                 "\"", "}">>)

\* Texts in which the scanner, expecting a value, finds a byte that starts
\* none: at the top level, in an array, in an object.
NoValueTexts ==
    {<<>>, Bytes(<<"]">>), Bytes(<<" ", ":">>),
     Bytes(<<"[", "1", ",", "]">>), Bytes(<<"[", ",", "1", "]">>),
     Bytes(<<"{", "\"", "a", "\"", ":", "}">>),
     Bytes(<<"[", "{", "\"", "a", "\"", ":", ",", "}", "]">>)}

OpenTexts == {Text4, Text5, Text6, LongText} \cup NoValueTexts \cup UTexts

OpenPaths == {Bytes(<<"/", "1">>), Bytes(<<".", ".">>)}

InitOpen == \E json \in OpenTexts : Allocated(json)

NextOpen ==
    \/ protect_open_proc
    \/ open_block_return
    \/ open_block_raise
    \/ \E path \in OpenPaths : doc_move(path)
    \/ doc_size
    \/ doc_type(NoPath, 0)
    \/ doc_fetch(NoPath, 0)

SpecOpen == InitOpen /\ [][NextOpen]_vars

\* Handles: every method, called in the block of open and on the handle the
\* block has kept after open has returned.  The blocks of the traversals
\* call home and the reporting methods.
InitHandle == \E json \in {Text4, Text5} : Allocated(json)

\* The paths move is called with: those of OpenPaths and the empty path.
HandlePaths == OpenPaths \cup {<<>>}

NextHandle ==
    \/ protect_open_proc
    \/ open_block_return
    \/ open_block_raise
    \/ \E path \in Given(HandlePaths, {}) : doc_move(path)
    \/ doc_home
    \/ doc_where_call
    \/ doc_local_key
    \/ doc_size
    \/ Outside /\ doc_type(NoPath, 0)
    \/ Outside /\ doc_fetch(Bytes(<<"/", "1">>), 0)
    \/ Outside /\ doc_dump(Bytes(<<"/", "1">>), 0)
    \/ Outside /\ doc_each_value(Bytes(<<"/", "1">>), 0)
    \/ Outside /\ doc_each_leaf(NoPath)
    \/ Outside /\ doc_each_child(NoPath)
    \/ block_return
    \/ block_raise

SpecHandle == InitHandle /\ [][NextHandle]_vars

\* Scanning: open of texts that exercise the number scanner, the string
\* scanner and the appends to the sibling rings; the block reads the root.
\* Texts with a number that starts with '+': at the top level, as an
\* element of an array, as the value of a member of an object.
PlusTexts ==
    {Bytes(<<"+", "1">>),
     Bytes(<<"[", "+", "1", "]">>),
     Bytes(<<"{", "\"", "a", "\"", ":", "+", "1", "}">>),
     Bytes(<<"[", "1", ",", "+", "2", "]">>)}

\* Texts with numbers: with and without a sign, a fraction, an exponent.
NumberTexts ==
    {Bytes(<<"1", "2">>),
     Bytes(<<"-", "3">>),
     Bytes(<<"1", ".", "5">>),
     Bytes(<<"1", "e", "5">>),
     Bytes(<<"1", "E", "5">>),
     Bytes(<<"1", ".", "5", "e", "3">>),
     Bytes(<<"-", "2", ".", "0", "E", "-", "1">>),
     Bytes(<<"[", "1", "e", "5", ",", "2", "]">>),
     Bytes(<<"[", "1", ".", "5", " ", ",", "-", "2", "]">>),
     Bytes(<<"{", "\"", "a", "\"", ":", "1", "E", "5", "}">>),
     Bytes(<<"{", "\"", "a", "\"", ":", "2", " ", ",", "\"", "b", "\"", ":", "0", ".", "5", "}">>)}

\* Texts with collections of no, one and several children, nested.
RingTexts ==
    {Bytes(<<"[", "]">>),
     Bytes(<<"{", "}">>),
     Bytes(<<"[", "1", "]">>),
     Bytes(<<"[", "1", ",", "2", ",", "3", "]">>),
     Bytes(<<"{", "\"", "a", "\"", ":", "1", ",", "\"", "b", "\"", ":", "2", "}">>),
     Bytes(<<"[", "[", "1", ",", "2", "]", ",", "{", "\"", "a", "\"", ":", "[", "]", "}", ",", "t", "r", "u", "e", "]">>),
     Bytes(<<"[", "[", "]", ",", "[", "n", "u", "l", "l", " ", ",", "f", "a", "l", "s", "e", "]", " ", "]">>),
     Bytes(<<"{", "\"", "a", "\"", ":", "{", "\"", "b", "\"", ":", "{", "}", "}", ",", "\"", "b", "\"", ":", "\"", "a", "\"", "}">>)}

\* Texts with strings and keys that have escapes.
StringTexts ==
    {Bytes(<<"\"", "a", "\\", "n", "b", "\"">>),
     Bytes(<<"\"", "\\", "u", "0", "0", "3", "1", "\\", "u", "0", "0", "3", "2", "\"">>),
     Bytes(<<"\"", "\\", "\\", "a", "\\", "/", "\"">>),
     Bytes(<<"[", "\"", "a", "\\", "t", "b", "\"", " ", ",", " ", "\"", "\\", "u", "0", "0", "e", "9", "e", "\"", "]">>),
     Bytes(<<"{", "\"", "b", "\\", "u", "0", "0", "3", "1", "\"", ":", "\"", "\\", "/", "\"", "}">>),
     Bytes(<<"\"", "\\", "u", "0", "0", "e", "9", "\\", "u", "0", "0", "e", "9", "a", "b", "\"">>)}

ScanTexts == PlusTexts \cup NumberTexts \cup RingTexts \cup StringTexts \cup UTexts

InitScan == \E json \in ScanTexts : Allocated(json)

NextScan ==
    \/ protect_open_proc
    \/ open_block_return
    \/ open_block_raise
    \/ doc_type(NoPath, 0)
    \/ doc_fetch(NoPath, 0)
    \/ doc_size

SpecScan == InitScan /\ [][NextScan]_vars

\* Visiting: each_leaf, each_child, each_value and fetch on the documents
\* of Parsed, from the cursor states single steps reach.  The blocks of the
\* traversals start a traversal at the cursor, up to MaxNest deep.
VisitPaths ==
    {Bytes(<<"/">>), Bytes(<<"1">>), Bytes(<<"/", "2">>), Bytes(<<"/", "a", "/", "2">>)}

InitVisit == \E j \in 1..Len(Parsed) : Opened(Parsed[j])

NextVisit ==
    \/ \E path \in Given(VisitPaths, {}) : doc_move(path)
    \/ \E path \in Given(VisitPaths \cup {NoPath}, Within({NoPath})) : doc_each_leaf(path)
    \/ \E path \in Given({NoPath}, Within({NoPath})) : doc_each_child(path)
    \/ block_return
    \/ block_raise
    \/ \E path \in Given(VisitPaths \cup {NoPath}, Within({NoPath})) :
          \E g \in GarbageFor(path) : doc_each_value(path, g)
    \/ \E path \in Given(VisitPaths \cup {NoPath}, {}) : \E g \in GarbageFor(path) :
          doc_fetch(path, g)

SpecVisit == InitVisit /\ [][NextVisit]_vars

\* Steps: move, fetch and type with paths of keys and indices, the index 0
\* among them, on an array, on an object with unique keys and on an object
\* that has a key twice and an empty array.
Text7 == Bytes(<<"{", "\"", "a", "\"", ":", "1", ",", "\"", "a", "\"", ":", "2", ",", "\"", "b", "\"", ":", "[", "]", "}">>)

KeyTexts == <<Text1, Text2, Text7>>

KeySteps ==
    {Bytes(<<"0">>), Bytes(<<"0", "0">>), Bytes(<<"1">>), Bytes(<<"a">>), Bytes(<<"b">>)}

KeyRel == KeySteps \cup {p \o <<Ascii["/"]>> \o q : p \in KeySteps, q \in KeySteps}

KeyAbs == {<<Ascii["/"]>> \o p : p \in KeyRel \cup {<<>>}}

KeyPaths == KeyRel \cup KeyAbs

InitSteps == \E j \in 1..Len(KeyTexts) : Opened(read_next(ParseInfo(KeyTexts[j])))

\* An index that does not fit the int move_step and get_leaf read it into:
\* 2^32 + 1.
WidePaths == {Bytes(<<"/", "4", "2", "9", "4", "9", "6", "7", "2", "9", "7">>)}

NextSteps ==
    \/ \E path \in KeyPaths \cup WidePaths : doc_move(path)
    \/ doc_home
    \/ \E path \in Again(KeyPaths \cup WidePaths \cup {NoPath}) : \E g \in GarbageFor(path) :
          doc_type(path, g)
    \/ \E path \in Again(KeyPaths \cup WidePaths \cup {NoPath}) : \E g \in GarbageFor(path) :
          doc_fetch(path, g)

SpecSteps == InitSteps /\ [][NextSteps]_vars

\* ----------------------------------------------------------------- claims

\* The cursor stacks (wp1, w1) and (wp2, w2) have the same depth and the
\* same entries up to it.
SameStack(wp1, w1, wp2, w2) ==
    w1 = w2 /\ \A i \in 0..w1 : wp1[i] = wp2[i]

\* e is one of the elements of the collection p.
IsChild(p, e) ==
    /\ p # 0
    /\ e # 0
    /\ Leaf(p).type \in {T_ARRAY, T_HASH}
    /\ \E k \in 1..Len(Children(p)) : Children(p)[k] = e

\* What fetch(path) returns without a default value, the uninitialised
\* entries of get_doc_leaf's local stack holding g.
Fetched(path, g) ==
    LET r == get_doc_leaf(where_path, where, path, g) IN
    IF r.leaf # 0 THEN leaf_value(r.leaf) ELSE Qnil

\* The leaf move(path) makes current, 0 if the move fails.
MoveTarget(path) ==
    LET m == MoveFrom(where_path, where, path) IN
    IF m.loc = 0 /\ m.c.fault = "" THEN m.c.wp[m.c.w] ELSE 0

\* path has no ".." step.
NoAscent(path) ==
    \A i \in 1..(Len(path) - 1) : ~(path[i] = Ascii["."] /\ path[i + 1] = Ascii["."])

\* C1: a move(P) that fails leaves the cursor stack, its depth and every
\* entry up to the depth, as it was before the call.
C1_FailedMoveRestoresCursor ==
    [][(last'.op = "move" /\ last'.loc # 0 /\ fault' = "")
          => SameStack(where_path', where', where_path, where)]_vars

\* C2: when each_leaf has completed, by returning or by a raise of the
\* block, the cursor stack is what it was before the call.
C2_EachLeafRestoresCursor ==
    (last.op = "each_leaf" /\ last.res \in {"done", "raised"} /\ fault = "")
        => SameStack(where_path, where, pre.wp, pre.w)

\* C3: at every leaf each_leaf visits from the root, fetching the path
\* where() returns gives the value of the leaf being visited.
C3_WherePathRoundTrip ==
    (last.op = "yield" /\ last.res = "each_leaf" /\ iter.start = data
            /\ pre.w = 0 /\ pre.wp[0] = data)
        => LET P == doc_where(where_path, where).str IN
           \A g \in GarbageFor(P) : Fetched(P, g) = Fetched(NoPath, 0)

\* C4: the cursor depth stays within 0..MAX_STACK-1 and nothing is written
\* past the end of where_path.
C4_DepthWithinStack ==
    /\ where \in 0..(MAX_STACK - 1)
    /\ where_path[MAX_STACK] = 0
    /\ where_path[MAX_STACK + 1] = SizeWord(doc.size)

\* C5: every entry of the cursor stack above the first is an element of
\* the collection in the entry below it.
C5_EntriesAreChildren ==
    fault = "" => \A i \in 0..(where - 1) : IsChild(where_path[i], where_path[i + 1])

\* C6: the first entry of the cursor stack is the root and the current
\* entry is a leaf of the document, never null.
C6_RootAtBottomCurrentNotNull ==
    fault = "" => (where_path[0] = data /\ where_path[where] # 0)

\* C7: move('/' + Q) has the outcome of home() followed by move(Q): both
\* fail, or both succeed and leave the same cursor stack.
C7_AbsoluteMoveIsHomeThenMove ==
    [][\A Q \in RelPaths :
          doc_move(<<Ascii["/"]>> \o Q)
             => LET b == MoveFrom([where_path EXCEPT ![0] = data], 0, Q) IN
                /\ (last'.loc = 0) <=> (b.loc = 0)
                /\ (b.loc = 0) => SameStack(where_path', where', b.c.wp, b.c.w)]_vars

\* C8: fetch(P) and type(P) with a relative P resolve on a copy of the
\* cursor stack up to and including the current entry, and reach the leaf
\* move(P) would make current.
C8_RelativeFetchStartsAtCurrent ==
    [][\A P \in RelPaths : \A g \in Garbage :
          (doc_fetch(P, g) \/ doc_type(P, g))
             => /\ fault' = ""
                /\ ScratchStack(where_path, where, g)[where] = where_path[where]
                /\ last'.leaf = MoveTarget(P)]_vars

\* C9: fetch, type and dump leave the cursor stack as it is, for every
\* path, whether it resolves or not.
C9_ReadsLeaveCursor ==
    [][last'.op \in {"fetch", "type", "dump"}
          => (where' = where /\ where_path' = where_path)]_vars

\* C9 witness: a fetch, type or dump below the root has reached a leaf
\* other than the current one.
C9_Witness ==
    /\ last.op \in {"fetch", "type", "dump"}
    /\ where > 0
    /\ last.leaf # 0
    /\ last.leaf # where_path[where]

\* C10: after a successful move(P), P absolute and made of existing keys
\* and indices, where() returns P; at the root where() returns "/".
C10_WhereReturnsMovedPath ==
    [][\A P \in AbsPaths :
          (doc_move(P) /\ last'.loc = 0 /\ fault' = "" /\ NoAscent(P))
             => doc_where(where_path', where').str = P]_vars

\* The positions of the quotes that open or close a string of text t (no
\* text of the model has a quote after an escaped backslash).
Quotes(t) == {i \in 1..Len(t) : t[i] = Ascii["\""] /\ Ch(t, i - 1) # Ascii["\\"]}

\* Position i of t lies inside a string, or is its closing quote.
InString(t, i) == Cardinality({j \in Quotes(t) : j < i}) % 2 = 1

\* The string opened at i is an object key: a ':' follows its closing quote.
IsKey(t, i) ==
    LET after == {k \in (i + 1)..Len(t) : k \in Quotes(t)}
        close == CHOOSE k \in after : \A m \in after : k <= m
        rest  == {k \in (close + 1)..Len(t) : ~IsWhite(t[k])}
    IN  /\ after # {}
        /\ rest # {}
        /\ t[CHOOSE k \in rest : \A m \in rest : k <= m] = Ascii[":"]

\* Position i of t is the first byte of a JSON value: a bracket or brace, the
\* opening quote of a string that is no key, the first byte of a number or
\* of true, false or null.
ValueStart(t, i) ==
    /\ ~InString(t, i)
    /\ \/ t[i] \in {Ascii["["], Ascii["{"]}
       \/ t[i] = Ascii["\""] /\ ~IsKey(t, i)
       \/ /\ IsDigit(t[i]) \/ t[i] \in {Ascii["-"], Ascii["+"]}
          /\ ~IsDigit(Ch(t, i - 1))
          /\ Ch(t, i - 1) \notin {Ascii["."], Ascii["e"], Ascii["E"], Ascii["-"],
                                  Ascii["+"]}
       \/ /\ t[i] \in {Ascii["t"], Ascii["f"], Ascii["n"]}
          /\ Ch(t, i - 1) \notin {Ascii["a"], Ascii["e"], Ascii["l"], Ascii["r"],
                                  Ascii["s"], Ascii["u"], Ascii["t"], Ascii["f"],
                                  Ascii["n"]}

\* The number of JSON value tokens of text t, keys not counted.
TokenCount(t) == Cardinality({i \in 1..Len(t) : ValueStart(t, i)})

\* C11: whenever size() returns in the block of open, the number it returns
\* is the number of JSON value tokens of the text that was opened, each
\* scalar and each container counted once and object keys not counted.
C11_SizeCountsTokens ==
    (last.op = "size" /\ fault = "") => last.val.n = TokenCount(doc.json)

\* The leaf path P names, 0 if none: the current node without a path, an
\* absolute path resolved from the root, a relative one from the cursor.
Resolves(P) ==
    IF P = NoPath THEN where_path[where]
    ELSE LET m == MoveFrom(IF Ch(P, 1) = Ascii["/"]
                           THEN [where_path EXCEPT ![0] = data] ELSE where_path,
                           where, P)
         IN  IF m.loc = 0 /\ m.c.fault = "" THEN m.c.wp[m.c.w] ELSE 0

\* The children of leaf t in source order, none for a leaf that is no
\* collection and for no leaf.
ChildrenOf(t) == IF t = 0 THEN <<>> ELSE Children(t)

\* C12: each_child(P) yields the first child of the node P resolves to, or
\* returns without a yield when that node has no child, is no collection or
\* does not exist; and when each_child returns, the leaves it has yielded
\* are the children of that node, each once, in source order.
C12_EachChildYieldsChildren ==
    [][/\ \A P \in Paths \cup {NoPath} :
             (doc_each_child(P) /\ fault' = "")
                 => IF ChildrenOf(Resolves(P)) = <<>>
                    THEN last'.op = "each_child"
                    ELSE /\ last'.op = "yield"
                         /\ last'.leaf = ChildrenOf(Resolves(P))[1]
                         /\ pre'.start = Resolves(P)
       /\ (last'.op = "each_child" /\ last'.res = "done" /\ fault' = "")
             => pre'.seen = ChildrenOf(pre'.start)]_vars

\* C13: when each_child fails, because its path does not resolve or because
\* the visitor raises, the cursor stack is what it was before the call.
C13_EachChildFailureKeepsCursor ==
    (last.op = "each_child" /\ last.res \in {"nopath", "raised"} /\ fault = "")
        => SameStack(where_path, where, pre.wp, pre.w)

\* C14: when open has returned, whether the block returned, the scanner
\* raised or the block raised, no batch of leaves is left allocated and the
\* handle no longer refers to the document; what was raised is raised again.
C14_OpenReleasesAll ==
    pc = "closed"
        => /\ batches = 0
           /\ DATA_PTR = 0
           /\ last.op = "open" => last.res # ""

\* C15: every method called on a handle whose open has returned fails with
\* an error raised by the method, without reading the document that was
\* released (no step taken on a closed handle ends in a memory fault).
C15_ClosedHandleRaises ==
    [][pc = "closed" => (fault' = "" /\ last'.res = "Closed")]_vars

\* C16: the scan of a text in which a value is expected and the next byte
\* starts none, at the top level or inside an array or an object, raises
\* the scanner's error: open returns with it and its block is never called.
C16_NoValueIsRejected ==
    [][(doc.json \in NoValueTexts /\ protect_open_proc)
          => (pc' = "closed" /\ last'.op = "open"
              /\ last'.res \notin {"", "returned", "raised"})]_vars

\* C17: a fetch(P) that follows a fetch(P) at once returns an equal value;
\* for a scalar the second call returns the object the first one cached in
\* the leaf, for an array or an object the value is never cached and is
\* built again.  (A fetch returns when it ends neither in a memory fault
\* nor in a TypeError.)
C17_FetchTwiceSameValue ==
    [][\A P \in Paths \cup {NoPath} : \A g \in GarbageFor(P) :
          (doc_fetch(P, g) /\ fault' = "" /\ last'.res # "TypeError")
             => \A g2 \in GarbageFor(P) :
                   LET r2 == get_doc_leaf(where_path', where', P, g2) IN
                   /\ r2.fault = ""
                   /\ r2.leaf = last'.leaf
                   /\ Fetched(P, g2)' = last'.val
                   /\ r2.leaf # 0
                        => value_type'[r2.leaf] =
                              IF Leaf(r2.leaf).type \in {T_ARRAY, T_HASH}
                              THEN COL_VAL ELSE RUBY_VAL]_vars

\* The first step of a relative path and what follows its '/'.
FirstStep(path) ==
    IF SlashAt(path) = -1 THEN path ELSE SubSeq(path, 1, SlashAt(path))

AfterStep(path) ==
    IF SlashAt(path) = -1 THEN <<>> ELSE From(path, SlashAt(path) + 2)

\* The 1-based position of the step of path, n the position of its first
\* step, that is an index greater than the number of children of the array
\* the steps before it lead to from cursor c; 0 when path has no such step.
RECURSIVE OverIndexAt(_, _, _)
OverIndexAt(c, path, n) ==
    IF path = <<>> \/ c.wp[c.w] = 0 THEN 0
    ELSE LET leaf == c.wp[c.w]
             step == FirstStep(path)
         IN  IF /\ Leaf(leaf).type = T_ARRAY
                /\ step # <<>>
                /\ DigitsLen(step) = Len(step)
                /\ fixnum_digits(step, 0) > Len(Children(leaf))
             THEN n
             ELSE LET m == move_step(c, step, 1) IN
                  IF m.loc # 0 \/ m.c.fault # "" THEN 0
                  ELSE OverIndexAt(m.c, AfterStep(path), n + 1)

OverIndex(P) ==
    IF Ch(P, 1) = Ascii["/"]
    THEN OverIndexAt(Cursor([where_path EXCEPT ![0] = data], 0), From(P, 2), 1)
    ELSE OverIndexAt(Cursor(where_path, where), P, 1)

\* C18: a move whose path has an index step greater than the number of
\* children of the array it is applied to fails with the 1-based position
\* of that step, selects no element and leaves the cursor stack as it was.
C18_IndexPastEndFails ==
    [][\A P \in Paths :
          (doc_move(P) /\ OverIndex(P) # 0)
             => /\ fault' = ""
                /\ last'.loc = OverIndex(P)
                /\ SameStack(where_path', where', where_path, where)]_vars

\* Resolving the relative path from cursor c, step by step, comes to a ".."
\* step with the cursor at depth 0.
RECURSIVE AscendsAtRootAt(_, _)
AscendsAtRootAt(c, path) ==
    IF path = <<>> \/ c.wp[c.w] = 0 THEN FALSE
    ELSE IF FirstStep(path) = Bytes(<<".", ".">>)
    THEN \/ c.w = 0
         \/ AscendsAtRootAt([c EXCEPT !.wp[c.w] = 0, !.w = c.w - 1], AfterStep(path))
    ELSE LET m == move_step(c, FirstStep(path), 1) IN
         /\ m.loc = 0
         /\ m.c.fault = ""
         /\ AscendsAtRootAt(m.c, AfterStep(path))

AscendsAtRoot(P) ==
    IF Ch(P, 1) = Ascii["/"]
    THEN AscendsAtRootAt(Cursor([where_path EXCEPT ![0] = data], 0), From(P, 2))
    ELSE AscendsAtRootAt(Cursor(where_path, where), P)

\* C19: a path that takes a ".." step at depth 0 fails: move reports the
\* failure and leaves the cursor on the root (or, when it did not start
\* there, where it was), and fetch and type find no leaf.
C19_AscentAtRootFails ==
    [][\A P \in Paths :
          /\ (doc_move(P) /\ AscendsAtRoot(P))
                => /\ fault' = ""
                   /\ last'.loc # 0
                   /\ \/ where' = 0 /\ where_path'[0] = data
                      \/ SameStack(where_path', where', where_path, where)
          /\ \A g \in GarbageFor(P) :
                ((doc_fetch(P, g) \/ doc_type(P, g)) /\ AscendsAtRoot(P))
                   => (fault' = "" /\ last'.leaf = 0)]_vars

\* The byte a pair of hex digits spells.
HexByte(pair) == HexVal(Ascii[pair[1]]) * 16 + HexVal(Ascii[pair[2]])

\* C20: the scan of the string "\uXXXX" leaves in the place of the
\* escape exactly two bytes, the high byte then the low byte, for every
\* value of the four digits, a high byte of 00 included.
C20_EscapeIsTwoBytes ==
    \A hi \in HexPairs : \A lo \in HexPairs :
        (pc # "protect" /\ doc.json = UText(hi, lo))
            => /\ doc.str[2] = HexByte(hi)
               /\ doc.str[3] = HexByte(lo)
               /\ doc.str[4] = 0

\* The leaves of the document's arena that have type type.
LeavesOfType(type) == {n \in 1..Len(doc.leaves) : Leaf(n).type = type}

\* C21: a text with a number that starts with '+', at the top level, as an
\* array element or as an object member's value, is scanned without an
\* error, and the document it gives has a number leaf at the '+'.
C21_LeadingPlusAccepted ==
    (doc.json \in PlusTexts /\ pc # "protect")
        => /\ last.op = "open" => last.res \in {"returned", "raised"}
           /\ data # 0
           /\ \E n \in LeavesOfType(T_FIXNUM) \cup LeavesOfType(T_FLOAT) :
                 /\ Leaf(n).str # 0
                 /\ doc.json[Leaf(n).str] = Ascii["+"]

\* The leaves below t that are no collections, t itself when it is none.
RECURSIVE LeafSet(_)
LeafSet(t) ==
    IF Leaf(t).type \in {T_ARRAY, T_HASH}
    THEN UNION {LeafSet(Children(t)[i]) : i \in 1..Len(Children(t))}
    ELSE {t}

\* The leaves of S in source order: leaf_new numbers the leaves in the
\* order in which their tokens start in the text.
RECURSIVE InSourceOrder(_)
InSourceOrder(S) ==
    IF S = {} THEN <<>>
    ELSE LET m == CHOOSE x \in S : \A y \in S : x <= y
         IN  <<m>> \o InSourceOrder(S \ {m})

\* The leaf descendants of t in source order: none when there is no t.
LeafSeq(t) == IF t = 0 THEN <<>> ELSE InSourceOrder(LeafSet(t))

\* The values of the leaves of seq.
ValuesOf(seq) == [i \in 1..Len(seq) |-> leaf_value(seq[i])]

\* The values at the leaves of the host value v, in the order of its
\* elements and members.
RECURSIVE Flatten(_)
RECURSIVE FlattenAll(_, _)
FlattenAll(a, i) == IF i > Len(a) THEN <<>> ELSE Flatten(a[i]) \o FlattenAll(a, i + 1)

Flatten(v) == IF v.t \in {"Array", "Hash"} THEN FlattenAll(v.a, 1) ELSE <<v>>

\* C22: each_leaf(P) yields the leaf descendants of the node P resolves to,
\* each once, in source order; each_value(P) yields the values of the same
\* leaves in that order, the values fetch() returns at the leaves each_leaf
\* visits; and the value fetch(P) builds has the same values at its leaves
\* in that order.
C22_VisitsInSourceOrder ==
    [][/\ \A P \in VisitPaths \cup {NoPath} :
             (doc_each_leaf(P) /\ fault' = "")
                => IF Resolves(P) = 0 THEN last'.res = "nopath"
                   ELSE pre'.start = Resolves(P)
       /\ (last'.op = "each_leaf" /\ last'.res = "done" /\ fault' = "")
             => pre'.seen = LeafSeq(pre'.start)
       /\ \A P \in VisitPaths \cup {NoPath} : \A g \in GarbageFor(P) :
             /\ (doc_each_value(P, g) /\ fault' = "")
                   => IF LeafSeq(Resolves(P)) = <<>>
                      THEN last'.op = "each_value" /\ last'.res = "done"
                      ELSE /\ last'.op = "yield"
                           /\ pre'.start = Resolves(P)
                           /\ last'.val = leaf_value(LeafSeq(Resolves(P))[1])
             /\ (doc_fetch(P, g) /\ fault' = "" /\ Resolves(P) # 0)
                   => Flatten(last'.val) = ValuesOf(LeafSeq(Resolves(P)))
       /\ (last'.op = "each_value" /\ last'.res = "done" /\ fault' = "")
             => pre'.seen = LeafSeq(pre'.start)
       /\ (last'.op = "yield" /\ last'.res = "each_value")
             => last'.val = leaf_value(last'.leaf)]_vars

\* C23: each_value, with or without a path, whether the path resolves or
\* not, leaves the cursor stack, its depth and all its entries, as it was
\* before the call: no step of it, to its first yield, from the return of
\* the block to the next yield or to its end, or out of it by the raise of
\* the block, changes the depth or an entry.
C23_EachValueKeepsCursor ==
    [][(last'.op = "each_value" \/ (last'.op = "yield" /\ last'.res = "each_value"))
          => (where' = where /\ where_path' = where_path)]_vars

\* An each_value called below the root has yielded the values of two
\* leaves under a node other than the current one and has returned.
C23_Witness ==
    /\ last.op = "each_value"
    /\ last.res = "done"
    /\ fault = ""
    /\ where > 0
    /\ pre.start # where_path[where]
    /\ Len(pre.seen) >= 2
    /\ SameStack(where_path, where, pre.wp, pre.w)

\* The 1-based position of the step of path, n the position of its first
\* step, that is made of zeros only and is applied to an array the steps
\* before it lead to from cursor c; 0 when path has no such step.
RECURSIVE ZeroIndexAt(_, _, _)
ZeroIndexAt(c, path, n) ==
    IF path = <<>> \/ c.wp[c.w] = 0 THEN 0
    ELSE LET leaf == c.wp[c.w]
             step == FirstStep(path)
         IN  IF /\ Leaf(leaf).type = T_ARRAY
                /\ step # <<>>
                /\ \A i \in 1..Len(step) : step[i] = Ascii["0"]
             THEN n
             ELSE LET m == move_step(c, step, 1) IN
                  IF m.loc # 0 \/ m.c.fault # "" THEN 0
                  ELSE ZeroIndexAt(m.c, AfterStep(path), n + 1)

ZeroIndex(P) ==
    IF Ch(P, 1) = Ascii["/"]
    THEN ZeroIndexAt(Cursor([where_path EXCEPT ![0] = data], 0), From(P, 2), 1)
    ELSE ZeroIndexAt(Cursor(where_path, where), P, 1)

\* C24: a move whose path has a step made of zeros only, applied to an
\* array, fails and leaves the cursor stack as it was: the step does not
\* select the first element.
C24_IndexZeroRejected ==
    [][\A P \in KeyPaths :
          (doc_move(P) /\ ZeroIndex(P) # 0)
             => /\ last'.loc # 0
                /\ SameStack(where_path', where', where_path, where)]_vars

\* The number leaves of the document that are part of its tree.
NumberLeaves == {n \in Linked : Leaf(n).type \in {T_FIXNUM, T_FLOAT}}

\* The text of the number token that starts at position p of text t: the
\* bytes from p on that can be part of a number.
RECURSIVE NumberToken(_, _)
NumberToken(t, p) ==
    IF Ch(t, p) \in {Ascii["+"], Ascii["-"], Ascii["."], Ascii["e"], Ascii["E"]}
       \/ IsDigit(Ch(t, p))
    THEN <<Ch(t, p)>> \o NumberToken(t, p + 1)
    ELSE <<>>

\* C25: a number leaf is T_FLOAT when its token has a '.', an 'e' or an
\* 'E', and T_FIXNUM when it has none of them.
C25_FloatIffDotOrExponent ==
    (doc.json \in NumberTexts /\ pc # "protect")
        => \A n \in NumberLeaves :
              (Leaf(n).type = T_FLOAT)
                 <=> \E i \in 1..Len(NumberToken(doc.json, Leaf(n).str)) :
                        NumberToken(doc.json, Leaf(n).str)[i]
                            \in {Ascii["."], Ascii["e"], Ascii["E"]}

\* The number of leaves of the tree below and with leaf t.
RECURSIVE TreeSize(_)
RECURSIVE TreeSizeAll(_, _)
TreeSizeAll(es, i) == IF i > Len(es) THEN 0 ELSE TreeSize(es[i]) + TreeSizeAll(es, i + 1)

TreeSize(t) ==
    1 + (IF Leaf(t).type \in {T_ARRAY, T_HASH} THEN TreeSizeAll(Children(t), 1) ELSE 0)

\* C26: in a scanned document the elements pointer of every collection
\* that has children is its last child, the next pointers lead from it
\* through the children in the order of their appends, each once, and back
\* to it, every child has the parent_type of the collection and the
\* children of an array have the indices 1..N in that order; the elements
\* pointer of a collection without children is null, so that the tree has
\* one leaf for every value token of the text.
C26_RingsWellFormed ==
    (doc.json \in ScanTexts \ PlusTexts /\ pc = "block")
        => /\ \A c \in Linked :
                 (Leaf(c).type \in {T_ARRAY, T_HASH} /\ Leaf(c).elements # 0)
                    => LET k == Children(c) IN
                       /\ k[Len(k)] = Leaf(c).elements
                       /\ Leaf(k[Len(k)]).next = k[1]
                       /\ \A i \in 1..Len(k) : \A j \in 1..Len(k) :
                             i < j => k[i] < k[j]
                       /\ \A i \in 1..Len(k) :
                             /\ Leaf(k[i]).parent_type = Leaf(c).type
                             /\ Leaf(c).type = T_ARRAY => Leaf(k[i]).index = i
           /\ TreeSize(data) = TokenCount(doc.json)

\* The array of an array of two, an object with an empty array and true
\* has been scanned.
C26_Witness ==
    /\ pc = "block"
    /\ doc.json = Bytes(<<"[", "[", "1", ",", "2", "]", ",", "{", "\"", "a", "\"", ":", "[", "]", "}", ",", "t", "r", "u", "e", "]">>)
    /\ Len(Children(data)) = 3
    /\ Len(Children(Children(data)[1])) = 2
    /\ Leaf(Children(Children(data)[2])[1]).elements = 0

\* C27: at every store of the string scanner the tail is not past the
\* head, and the byte it writes is one no later step reads: the tail of a
\* store is before the head of every later store.
C27_TailNeverPassesHead ==
    /\ \A i \in 1..Len(doc.writes) : doc.writes[i][1] <= doc.writes[i][2]
    /\ \A i \in 1..Len(doc.writes) : \A j \in 1..Len(doc.writes) :
          i < j => doc.writes[i][1] < doc.writes[j][2]

\* A string of two \u escapes has been scanned: four bytes and the NUL
\* were stored, the last ones with the tail well behind the head.
C27_Witness ==
    /\ pc = "block"
    /\ doc.json = Bytes(<<"\"", "\\", "u", "0", "0", "3", "1", "\\", "u", "0", "0", "3", "2", "\"">>)
    /\ Len(doc.writes) = 5
    /\ doc.writes[5][1] < doc.writes[5][2]
    /\ CStr(Leaf(data).str) = Bytes(<<"1", "2">>)

\* The positions of the document's buffer that a string or a key was
\* rewritten on: from the first byte of a string's text up to the quote
\* that closed it.
InPlace(i) == \E k \in 1..Len(doc.writes) : doc.writes[k][1] = i

\* C28: in a scanned document the text of every number that is an element
\* of an array or the value of a member, read from the buffer up to the
\* first NUL, is the number's token; and apart from the bytes the string
\* scanner rewrote, the buffer differs from the text only by NULs written
\* on white space and on the ',', ']' and '}' that the scanner has
\* consumed.
C28_ValuesAreTerminated ==
    (doc.json \in ScanTexts /\ pc = "block")
        => /\ \A n \in NumberLeaves :
                 Leaf(n).parent_type # T_NONE
                    => CStr(Leaf(n).str) = NumberToken(doc.json, Leaf(n).str)
           /\ \A i \in 1..Len(doc.json) :
                 (doc.str[i] # doc.json[i] /\ ~InPlace(i))
                    => /\ doc.str[i] = 0
                       /\ i < Len(doc.json) + 1
                       /\ IsWhite(doc.json[i])
                            \/ doc.json[i] \in {Ascii[","], Ascii["]"], Ascii["}"]}

\* An array of a number followed by white space and a number followed by
\* the closing bracket has been scanned.
C28_Witness ==
    /\ pc = "block"
    /\ doc.json = Bytes(<<"[", "1", ".", "5", " ", ",", "-", "2", "]">>)
    /\ CStr(Leaf(Children(data)[1]).str) = Bytes(<<"1", ".", "5">>)
    /\ CStr(Leaf(Children(data)[2]).str) = Bytes(<<"-", "2">>)
    /\ doc.str[5] = 0
    /\ doc.str[9] = 0

\* C29: for every absolute path P, fetch(P) and type(P) find the leaf that
\* move(P) makes current, and find no leaf when move(P) fails.
C29_ReadsResolveAsMove ==
    [][\A P \in KeyAbs : \A g \in GarbageFor(P) :
          (doc_fetch(P, g) \/ doc_type(P, g))
             => (fault' = "" /\ last'.leaf = MoveTarget(P))]_vars

\* The members of the object leaf t whose key is k, in source order.
MembersWith(t, k) ==
    SelectSeq(Children(t), LAMBDA e : CStr(Leaf(e).key) = k)

\* The value the Hash h holds for key k.
HashAt(h, k) == h.a[CHOOSE i \in 1..Len(h.k) : h.k[i] = k]

\* The path of step k below the path P: the root's path is its final '/',
\* the empty path stands for the cursor's node.
StepBelow(P, k) == IF Len(P) <= 1 THEN P \o k ELSE P \o <<Ascii["/"]>> \o k

\* C30: when a path P, absolute or empty for the cursor's node, resolves to
\* an object and k is the key of one of its members, the step k below P
\* resolves in move, fetch and type to the first member with that key, the
\* Hash fetch(P) returns holds for k the value of the last member with that
\* key, and when the key is unique fetch of the step returns what that Hash
\* holds for k.
C30_DuplicateKeys ==
    [][\A P \in {<<>>, <<Ascii["/"]>>} \cup {<<Ascii["/"]>> \o s : s \in KeySteps} :
          LET t  == IF P = <<>> THEN where_path[where] ELSE MoveTarget(P)
              PP == IF P = <<>> THEN NoPath ELSE P
          IN
          (t # 0 /\ Leaf(t).type = T_HASH)
             => \A k \in KeySteps : \A g \in GarbageFor(StepBelow(P, k)) :
                   LET ms == MembersWith(t, k) IN
                   Len(ms) > 0
                      => /\ doc_move(StepBelow(P, k))
                              => (fault' = "" /\ last'.loc = 0
                                    /\ where_path'[where'] = ms[1])
                         /\ (doc_fetch(StepBelow(P, k), g) \/ doc_type(StepBelow(P, k), g))
                              => (fault' = "" /\ last'.leaf = ms[1])
                         /\ doc_fetch(PP, 0)
                              => (fault' = "" /\ last'.val.t = "Hash"
                                    /\ HashAt(last'.val, k) = leaf_value(ms[Len(ms)]))
                         /\ (Len(ms) = 1 /\ doc_fetch(StepBelow(P, k), g))
                              => last'.val = HashAt(leaf_value(t), k)]_vars
====
